---- MODULE Spec2Model ----
(***************************************************************************)
(* Clustered POI placement of the Mecalux AMR layer-1 utilities.           *)
(*                                                                         *)
(*   SpecPG  poi_generator.py : MapAccessibility + POIGenerator            *)
(*   SpecWS  warehouse_setup.py : main / generate_poi_config /             *)
(*           generate_clustered_pois                                       *)
(*   SpecMap the obstacle map: prohibited_zone_generator.py, map_baker.py, *)
(*           warehouse_setup.py image_to_map .. inflate_map, and the       *)
(*           readers of map_layout.txt (load_map, MapAccessibility)        *)
(*   SpecGen either POI generator runs (SpecPG or SpecWS)                  *)
(*                                                                         *)
(* Python's `random` module is modelled as a deterministic generator whose *)
(* state is the variable rng: seeding fixes the state, an unseeded         *)
(* generator starts in an arbitrary state (OS entropy).  shuffle is        *)
(* Fisher-Yates over randbelow, randint(a, b) is a + randbelow(b - a + 1). *)
(***************************************************************************)
EXTENDS Integers, Sequences, FiniteSets, TLC

\* ------------------------------------------------------------------------
\* Bounds of the model
\* ------------------------------------------------------------------------
Width == 3
Height == 3
MaxObstacles == 1
MaxRadius == 1
MaxMargin == 1
MaxInterClusterSpacing == 3
MaxClusterSpacing == 2
MaxSeed == 0
MaxEntropy == 3
MaxEntropyWS == 1
MaxNumClusters == 2
MaxNodesPerCluster == 3
MaxPois == 2
MaxFloor == 3
MaxDim == 4
MaxObjects == 1
MaxZones == 1
MaxImage == 2
MaxSeedB == 20
MaxEntries == 2
MaxCoord == 2

\* Python's None, for optional integers: <<>> is None, <<n>> is n.
None == <<>>
Some(n) == <<n>>
Val(o) == o[1]

\* ------------------------------------------------------------------------
\* POIConfig defaults
\* ------------------------------------------------------------------------
max_charging_clusters == 3
max_charging_per_cluster == 2
max_pickup_clusters == 4
max_pickup_per_cluster == 4
max_dropoff_clusters == 4
max_dropoff_per_cluster == 4

VARIABLES
    \* ---- poi_generator.py
    map_width,              \* MapAccessibility.width
    map_height,             \* MapAccessibility.height
    static_map,             \* MapAccessibility.static_map, [cell -> BOOLEAN], TRUE = walkable
    inflated_map,           \* MapAccessibility.inflated_map, TRUE = robot can fit
    radius_pixels,          \* ceil(robot_radius_meters / resolution_meters_per_pixel)
    edge_margin,            \* POIConfig.edge_margin
    cluster_spacing,        \* POIConfig.cluster_spacing
    inter_cluster_spacing,  \* POIConfig.inter_cluster_spacing
    seed,                   \* the seed argument of POIGenerator.__init__ / --seed
    rng,                    \* state of the global random generator
    clusters,               \* POIGenerator.clusters
    used_positions,         \* POIGenerator.used_positions
    center_log,             \* history: every center returned by _find_cluster_center
    last_call,              \* history: the last generate_*_clusters call
    args,                   \* main: args.*_clusters / args.*_per_cluster
    poi_config,             \* main: the "poi" list of poi_config = generator.to_poi_config()
    pc,                     \* position in main
    pg_run,                 \* 1: first run, 2: second run with the same arguments
    pg_prev_clusters,       \* history: self.clusters at the end of the first run
    \* ---- warehouse_setup.py
    ws_mode,                \* "cli" (--non-interactive) or "interactive"
    ws_input,               \* what the user gave: seed, number of zones, number of clusters
    config,                 \* WarehouseConfig
    accessible_cells,       \* result of get_accessible_cells(inflated_map)
    ws_rng,                 \* state of the global random generator
    seed_base,              \* generate_poi_config: seed_base
    ws_used_positions,      \* generate_poi_config: used_positions
    ws_pois,                \* generate_poi_config: charging_pois + pickup_pois + dropoff_pois
    ws_ret,                 \* what the last generate_clustered_pois call returned
    ws_calls,               \* history: the generate_clustered_pois calls of this run
    ws_pc,                  \* position in main / generate_poi_config
    ws_run,                 \* 1: first run of the program, 2: second run, same inputs
    ws_prev_pois,           \* the "poi" list written by the first run
    \* ---- the obstacle map: prohibited_zone_generator.py, map_baker.py,
    \*      warehouse_setup.py (image_to_map .. inflate_map), the readers of the file
    tool,                   \* the program that writes map_layout.txt
    layout,                 \* WarehouseLayoutLoader: floor_size, objects, prohibited_zones
    resolution_m_per_px,    \* ProhibitedZoneGenerator.resolution_m_per_px
    grid,                   \* ProhibitedZoneGenerator.grid, rows of BOOLEAN, TRUE = walkable
    mark_log,               \* history: one entry per shape processed by generate_grid
    image,                  \* the resized grayscale image: rows of pixel values
    heap,                   \* the row lists (Python list objects) of the mutable grids
    binary_map,             \* warehouse_setup main: binary_map, a list of rows of the heap
    ws_inflated_map,        \* warehouse_setup main: inflated_map, a list of rows of the heap
    map_file,               \* the lines of map_layout.txt, None when not written
    vw,                     \* visualize_warehouse: what load_map returned
    ma,                     \* MapAccessibility: width, height, static_map, inflated_map
    ma_config,              \* POIConfig of MapAccessibility: radius in pixels, edge_margin
    inflate_in,             \* history: the value of the grid handed to the inflation
    map_pc,                 \* position in the map pipeline
    \* ---- warehouse_layout_loader.py
    ld_data,                \* the dictionary json.load returned
    loader,                 \* WarehouseLayoutLoader: layout, errors, warnings
    ld_pc,                  \* position in the program that loads the layout
    \* ---- one call of a function of the programs
    fn_in,                  \* the arguments of the call
    fn_out,                 \* what the call returned
    fn_pc                   \* "call" before the call, "done" after it

pg_vars == <<map_width, map_height, static_map, inflated_map, radius_pixels, edge_margin, cluster_spacing,
             inter_cluster_spacing, seed, rng, clusters, used_positions,
             center_log, last_call, args, poi_config, pc, pg_run, pg_prev_clusters>>

ws_vars == <<ws_mode, ws_input, config, accessible_cells, ws_rng, seed_base,
             ws_used_positions, ws_pois, ws_ret, ws_calls, ws_pc, ws_run, ws_prev_pois>>

map_vars == <<tool, layout, resolution_m_per_px, grid, mark_log, image, heap, binary_map,
              ws_inflated_map, map_file, vw, ma, ma_config, inflate_in, map_pc>>

ld_vars == <<ld_data, loader, ld_pc>>

fn_vars == <<fn_in, fn_out, fn_pc>>

vars == <<pg_vars, ws_vars, map_vars, ld_vars, fn_vars>>

\* ------------------------------------------------------------------------
\* Geometry
\* ------------------------------------------------------------------------
Cells == (0..(map_width - 1)) \X (0..(map_height - 1))

\* for y in range(height): for x in range(width)
RowMajor ==
    [k \in 1..(map_width * map_height) |-> <<(k - 1) % map_width, (k - 1) \div map_width>>]

DistSq(p1, p2) == (p1[1] - p2[1]) * (p1[1] - p2[1]) + (p1[2] - p2[2]) * (p1[2] - p2[2])

\* _distance(p1, p2) < min_dist, for integer points and an integer min_dist:
\* sqrt(d2) < m  iff  m > 0 and d2 < m * m
distance_lt(p1, p2, min_dist) == min_dist > 0 /\ DistSq(p1, p2) < min_dist * min_dist

\* ------------------------------------------------------------------------
\* random
\* ------------------------------------------------------------------------
NextRand(r) == (r * 37 + 11) % 251

\* random.seed(s)
seed_rng(s) == (s * 17 + 5) % 251

\* random._randbelow(n), n >= 1
randbelow(r, n) == [value |-> NextRand(r) % n, rng |-> NextRand(r)]

\* random.randint(a, b)
randint(r, a, b) == [value |-> a + randbelow(r, b - a + 1).value,
                     rng |-> randbelow(r, b - a + 1).rng]

\* random.shuffle(x): for i in reversed(range(1, len(x))): j = randbelow(i + 1); swap.
\* shuffle_steps does the steps for the 1-based positions hi down to lo, the upper half
\* of the range first; st is [x, rng]
RECURSIVE shuffle_steps(_, _, _)
shuffle_steps(st, lo, hi) ==
    IF lo > hi THEN st
    ELSE IF lo = hi
    THEN LET d == randbelow(st.rng, hi)
             j == d.value + 1
         IN [x |-> [st.x EXCEPT ![hi] = st.x[j], ![j] = st.x[hi]], rng |-> d.rng]
    ELSE LET mid == (lo + hi) \div 2
             upper == shuffle_steps(st, mid + 1, hi)
         IN IF upper.rng >= 0 THEN shuffle_steps(upper, lo, mid) ELSE upper

shuffle(x, r) == shuffle_steps([x |-> x, rng |-> r], 2, Len(x))

\* ------------------------------------------------------------------------
\* MapAccessibility
\* ------------------------------------------------------------------------
\* variant: the square of side 2r + 1 instead of the disk
Disk_box(r) == ((-r)..r) \X ((-r)..r)

\* offsets (dx, dy) with dx*dx + dy*dy <= r*r
Disk(r) == {d \in ((-r)..r) \X ((-r)..r) : d[1] * d[1] + d[2] * d[2] <= r * r}

InMargin(c, m) ==
    c[1] < m \/ c[1] >= map_width - m \/ c[2] < m \/ c[2] >= map_height - m

\* variant: the cells near the map edges are not closed
inflate_map_pg_nomargin(sm, r, m) ==
    LET obstacles == {o \in Cells : ~sm[o]}
        closed == UNION {{<<o[1] + d[1], o[2] + d[2]>> : d \in Disk(r)} : o \in obstacles}
    IN [c \in Cells |-> sm[c] /\ c \notin closed]

\* _inflate_map: every obstacle cell closes the cells of the disk around it,
\* then the cells near the map edges are closed.
inflate_map_pg(sm, r, m) ==
    LET obstacles == {o \in Cells : ~sm[o]}
        closed == UNION {{<<o[1] + d[1], o[2] + d[2]>> : d \in Disk(r)} : o \in obstacles}
    IN [c \in Cells |-> sm[c] /\ c \notin closed /\ ~InMargin(c, m)]

is_accessible(im, x, y) ==
    IF 0 <= x /\ x < map_width /\ 0 <= y /\ y < map_height THEN im[<<x, y>>] ELSE FALSE

get_accessible_cells_pg(im) == SelectSeq(RowMajor, LAMBDA c : im[c])

find_accessible_region(im, center_x, center_y, radius) ==
    LET n == 2 * radius + 1
        offs == [k \in 1..(n * n) |-> <<((k - 1) % n) - radius, ((k - 1) \div n) - radius>>]
        Keep(d) == /\ d[1] * d[1] + d[2] * d[2] <= radius * radius
                   /\ is_accessible(im, center_x + d[1], center_y + d[2])
        sel == SelectSeq(offs, Keep)
    IN [k \in 1..Len(sel) |-> <<center_x + sel[k][1], center_y + sel[k][2]>>]

\* ------------------------------------------------------------------------
\* POIGenerator
\* ------------------------------------------------------------------------
\* variant: the distance to the existing cluster centers is not checked
is_valid_cluster_center_nodist(im, cls, x, y, min_dist) ==
    is_accessible(im, x, y)

is_valid_cluster_center(im, cls, x, y, min_dist) ==
    /\ is_accessible(im, x, y)
    /\ \A k \in 1..Len(cls) :
          ~distance_lt(<<x, y>>, <<cls[k].center_x, cls[k].center_y>>, min_dist)

\* variant: the distance to the used positions is not checked
is_valid_poi_position_nodist(im, used, x, y, min_dist) ==
    is_accessible(im, x, y)

is_valid_poi_position(im, used, x, y, min_dist) ==
    /\ is_accessible(im, x, y)
    /\ \A pos \in used : ~distance_lt(<<x, y>>, pos, min_dist)

find_cluster_center(im, cls, ics, r) ==
    LET sh == shuffle(get_accessible_cells_pg(im), r)
        Valid(c) == is_valid_cluster_center(im, cls, c[1], c[2], ics)
        valid == SelectSeq(sh.x, Valid)
    IN [found |-> valid # <<>>,
        center |-> IF valid # <<>> THEN valid[1] ELSE <<>>,
        rng |-> sh.rng]

\* variant: the loop does not stop at max_nodes
RECURSIVE populate_loop_nocap(_, _, _, _, _, _, _)
populate_loop_nocap(im, cands, k, nodes, used, max_nodes, cs) ==
    IF k > Len(cands) THEN [nodes |-> nodes, used |-> used]
    ELSE IF is_valid_poi_position(im, used, cands[k][1], cands[k][2], cs)
         THEN populate_loop_nocap(im, cands, k + 1, Append(nodes, cands[k]),
                                  used \cup {cands[k]}, max_nodes, cs)
         ELSE populate_loop_nocap(im, cands, k + 1, nodes, used, max_nodes, cs)

RECURSIVE populate_loop(_, _, _, _, _, _, _)
populate_loop(im, cands, k, nodes, used, max_nodes, cs) ==
    IF k > Len(cands) \/ Len(nodes) >= max_nodes THEN [nodes |-> nodes, used |-> used]
    ELSE IF is_valid_poi_position(im, used, cands[k][1], cands[k][2], cs)
         THEN populate_loop(im, cands, k + 1, Append(nodes, cands[k]),
                            used \cup {cands[k]}, max_nodes, cs)
         ELSE populate_loop(im, cands, k + 1, nodes, used, max_nodes, cs)

\* variant: the accepted positions are not added to used_positions
populate_cluster_forget(im, center, max_nodes, used, cs, ics, r) ==
    LET search_radius == ics \div 2
        sh == shuffle(find_accessible_region(im, center[1], center[2], search_radius), r)
        res == populate_loop(im, sh.x, 1, <<>>, used, max_nodes, cs)
    IN [nodes |-> res.nodes, used |-> used, rng |-> sh.rng]

populate_cluster(im, center, max_nodes, used, cs, ics, r) ==
    LET search_radius == ics \div 2
        sh == shuffle(find_accessible_region(im, center[1], center[2], search_radius), r)
        res == populate_loop(im, sh.x, 1, <<>>, used, max_nodes, cs)
    IN [nodes |-> res.nodes, used |-> res.used, rng |-> sh.rng]

\* variant: the cluster is appended even when it has no node
append_cluster_always(cls, cluster) == Append(cls, cluster)

\* if cluster.nodes: self.clusters.append(cluster)
append_cluster(cls, cluster) ==
    IF cluster.nodes # <<>> THEN Append(cls, cluster) ELSE cls

\* the body of `for _ in range(num_clusters)`, iters iterations left
RECURSIVE generate_loop(_, _, _, _, _, _, _)
generate_loop(st, im, poi_type, iters, nodes_per_cluster, cs, ics) ==
    IF iters <= 0 THEN st
    ELSE LET f == find_cluster_center(im, st.clusters, ics, st.rng)
         IN IF ~f.found
            THEN generate_loop([st EXCEPT !.rng = f.rng], im, poi_type, iters - 1,
                               nodes_per_cluster, cs, ics)
            ELSE LET p == populate_cluster(im, f.center, nodes_per_cluster, st.used,
                                           cs, ics, f.rng)
                     cluster == [center_x |-> f.center[1], center_y |-> f.center[2],
                                 poi_type |-> poi_type, nodes |-> p.nodes]
                 IN generate_loop(
                        [clusters |-> append_cluster(st.clusters, cluster),
                         used |-> p.used,
                         rng |-> p.rng,
                         log |-> Append(st.log, [center |-> f.center,
                                                 poi_type |-> poi_type,
                                                 nodes |-> Len(p.nodes)])],
                        im, poi_type, iters - 1, nodes_per_cluster, cs, ics)

\* generate_charging_clusters / generate_pickup_clusters / generate_dropoff_clusters
generate_clusters(poi_type, max_clusters, max_per_cluster, num_arg, npc_arg, next_pc) ==
    LET d1 == IF num_arg = None THEN randint(rng, 1, max_clusters)
              ELSE [value |-> Val(num_arg), rng |-> rng]
        d2 == IF npc_arg = None THEN randint(d1.rng, 1, max_per_cluster)
              ELSE [value |-> Val(npc_arg), rng |-> d1.rng]
        st == generate_loop([clusters |-> clusters, used |-> used_positions,
                             rng |-> d2.rng, log |-> center_log],
                            inflated_map, poi_type, d1.value, d2.value,
                            cluster_spacing, inter_cluster_spacing)
    IN /\ clusters' = st.clusters
       /\ used_positions' = st.used
       /\ rng' = st.rng
       /\ center_log' = st.log
       /\ last_call' = [poi_type |-> poi_type, num_clusters |-> d1.value,
                        nodes_per_cluster |-> d2.value, before |-> Len(clusters)]
       /\ pc' = next_pc
       /\ UNCHANGED <<map_width, map_height, static_map, inflated_map, radius_pixels,
                      edge_margin, cluster_spacing, inter_cluster_spacing, seed, args,
                      poi_config, pg_run, pg_prev_clusters>>
       /\ UNCHANGED <<ws_vars, map_vars, ld_vars, fn_vars>>

NumArgs == {None} \cup {Some(n) : n \in 0..MaxNumClusters}
NpcArgs == {None} \cup {Some(n) : n \in 0..MaxNodesPerCluster}

\* main: the three calls in the order of the source
generate_charging_clusters ==
    /\ pc = "charging"
    /\ generate_clusters("CHARGING", max_charging_clusters, max_charging_per_cluster,
                         args.num_clusters, args.nodes_per_cluster, "pickup")

generate_pickup_clusters ==
    /\ pc = "pickup"
    /\ generate_clusters("PICKUP", max_pickup_clusters, max_pickup_per_cluster,
                         args.num_clusters, args.nodes_per_cluster, "dropoff")

generate_dropoff_clusters ==
    /\ pc = "dropoff"
    /\ generate_clusters("DROPOFF", max_dropoff_clusters, max_dropoff_per_cluster,
                         args.num_clusters, args.nodes_per_cluster, "done")

\* text is the sequence of its characters
Digits == <<"0", "1", "2", "3", "4", "5", "6", "7", "8", "9">>

\* str(n) of a non-negative integer, as f"{n}" formats it
RECURSIVE str_int(_)
str_int(n) == IF n < 10 THEN <<Digits[n + 1]>>
              ELSE str_int(n \div 10) \o <<Digits[(n % 10) + 1]>>

\* variant: the dropoff ids are even numbers as well
RECURSIVE to_poi_config_nodes_even(_, _, _)
to_poi_config_nodes_even(st, cluster, k) ==
    IF k > Len(cluster.nodes) THEN st
    ELSE LET poi_id == IF cluster.poi_type = "CHARGING"
                       THEN <<"C">> \o str_int(st.charging_count)
                       ELSE IF cluster.poi_type = "PICKUP"
                       THEN <<"P">> \o str_int(st.pickup_count * 2)
                       ELSE <<"P">> \o str_int(st.dropoff_count * 2)
             poi == [id |-> poi_id, type |-> cluster.poi_type,
                     x |-> cluster.nodes[k][1], y |-> cluster.nodes[k][2],
                     active |-> TRUE,
                     cluster_center |-> <<cluster.center_x, cluster.center_y>>]
         IN to_poi_config_nodes_even(
                [pois |-> Append(st.pois, poi),
                 charging_count |-> st.charging_count
                                    + (IF cluster.poi_type = "CHARGING" THEN 1 ELSE 0),
                 pickup_count |-> st.pickup_count
                                  + (IF cluster.poi_type = "PICKUP" THEN 1 ELSE 0),
                 dropoff_count |-> st.dropoff_count
                                   + (IF cluster.poi_type \notin {"CHARGING", "PICKUP"}
                                      THEN 1 ELSE 0)],
                cluster, k + 1)

\* to_poi_config, the loop "for x, y in cluster.nodes" from node k on; st is
\* [pois, charging_count, pickup_count, dropoff_count]
RECURSIVE to_poi_config_nodes(_, _, _)
to_poi_config_nodes(st, cluster, k) ==
    IF k > Len(cluster.nodes) THEN st
    ELSE LET poi_id == IF cluster.poi_type = "CHARGING"
                       THEN <<"C">> \o str_int(st.charging_count)
                       ELSE IF cluster.poi_type = "PICKUP"
                       THEN <<"P">> \o str_int(st.pickup_count * 2)
                       ELSE <<"P">> \o str_int(st.dropoff_count * 2 + 1)
             poi == [id |-> poi_id, type |-> cluster.poi_type,
                     x |-> cluster.nodes[k][1], y |-> cluster.nodes[k][2],
                     active |-> TRUE,
                     cluster_center |-> <<cluster.center_x, cluster.center_y>>]
         IN to_poi_config_nodes(
                [pois |-> Append(st.pois, poi),
                 charging_count |-> st.charging_count
                                    + (IF cluster.poi_type = "CHARGING" THEN 1 ELSE 0),
                 pickup_count |-> st.pickup_count
                                  + (IF cluster.poi_type = "PICKUP" THEN 1 ELSE 0),
                 dropoff_count |-> st.dropoff_count
                                   + (IF cluster.poi_type \notin {"CHARGING", "PICKUP"}
                                      THEN 1 ELSE 0)],
                cluster, k + 1)

\* to_poi_config, the loop "for cluster in self.clusters" from cluster c on
RECURSIVE to_poi_config_clusters(_, _, _)
to_poi_config_clusters(st, cls, c) ==
    IF c > Len(cls) THEN st
    ELSE to_poi_config_clusters(to_poi_config_nodes(st, cls[c], 1), cls, c + 1)

\* variant: the clusters are emitted last first
to_poi_config_reversed(cls) ==
    to_poi_config_clusters([pois |-> <<>>, charging_count |-> 0, pickup_count |-> 0,
                            dropoff_count |-> 0],
                           [c \in 1..Len(cls) |-> cls[Len(cls) + 1 - c]], 1).pois

\* to_poi_config: the "poi" list of the returned configuration
to_poi_config(cls) ==
    to_poi_config_clusters([pois |-> <<>>, charging_count |-> 0, pickup_count |-> 0,
                            dropoff_count |-> 0], cls, 1).pois

\* main: poi_config = generator.to_poi_config(), written to the output file
main_to_poi_config ==
    /\ pc = "done"
    /\ poi_config' = to_poi_config(clusters)
    /\ pc' = "saved"
    /\ UNCHANGED <<map_width, map_height, static_map, inflated_map, radius_pixels,
                   edge_margin, cluster_spacing, inter_cluster_spacing, seed, rng, clusters,
                   used_positions, center_log, last_call, args, pg_run, pg_prev_clusters>>
    /\ UNCHANGED <<ws_vars, map_vars, ld_vars, fn_vars>>

\* no layout is being loaded, no single function is being called
LdIdle ==
    /\ ld_data = <<>>
    /\ loader = <<>>
    /\ ld_pc = "off"
    /\ fn_in = <<>>
    /\ fn_out = <<>>
    /\ fn_pc = "off"

\* warehouse_setup.py is not running
WsIdle ==
    /\ ws_mode = "off"
    /\ ws_input = [seed |-> None, pois |-> None, clusters |-> None]
    /\ config = [seed |-> None]
    /\ accessible_cells = <<>>
    /\ ws_rng = 0
    /\ seed_base = None
    /\ ws_used_positions = {}
    /\ ws_pois = <<>>
    /\ ws_ret = [pois |-> <<>>]
    /\ ws_calls = <<>>
    /\ ws_pc = "off"
    /\ ws_run = 0
    /\ ws_prev_pois = <<>>

\* no obstacle map is being produced or read
MapIdle ==
    /\ tool = "off"
    /\ layout = [floor_size |-> <<0, 0>>, objects |-> <<>>, prohibited_zones |-> <<>>]
    /\ resolution_m_per_px = 1
    /\ grid = <<>>
    /\ mark_log = <<>>
    /\ image = <<>>
    /\ heap = <<>>
    /\ binary_map = <<>>
    /\ ws_inflated_map = <<>>
    /\ map_file = None
    /\ vw = None
    /\ ma = None
    /\ ma_config = [radius_pixels |-> 0, edge_margin |-> 0]
    /\ inflate_in = [ws |-> <<>>, ma |-> <<>>]
    /\ map_pc = "off"

\* A loaded map with at most MaxObstacles obstacle cells
StaticMaps ==
    {[c \in Cells |-> c \notin obs] : obs \in {s \in SUBSET Cells : Cardinality(s) <= MaxObstacles}}

\* the map with no obstacle cell
OpenMap == [c \in Cells |-> TRUE]

\* MapAccessibility(map_path, config) followed by POIGenerator(map_access, config, seed).
\* Two families of inputs: maps with obstacles, any robot radius and edge margin, under
\* one spacing configuration; the open floor under every spacing configuration and
\* every pair of command-line counts.
InitPG ==
    /\ map_width = Width
    /\ map_height = Height
    /\ \/ /\ static_map \in StaticMaps
          /\ radius_pixels \in 0..MaxRadius
          /\ edge_margin \in 0..MaxMargin
          /\ cluster_spacing = 1
          /\ inter_cluster_spacing = 2
          /\ args \in {[num_clusters |-> None, nodes_per_cluster |-> None],
                       [num_clusters |-> Some(MaxNumClusters),
                        nodes_per_cluster |-> Some(MaxNodesPerCluster)]}
       \/ /\ static_map = OpenMap
          /\ radius_pixels = 0
          /\ edge_margin = 0
          /\ cluster_spacing \in 0..MaxClusterSpacing
          /\ inter_cluster_spacing \in 1..MaxInterClusterSpacing
          /\ args \in [num_clusters : NumArgs, nodes_per_cluster : NpcArgs]
    /\ inflated_map = inflate_map_pg(static_map, radius_pixels, edge_margin)
    /\ seed \in {None} \cup {Some(s) : s \in 0..MaxSeed}
    /\ IF seed # None THEN rng = seed_rng(Val(seed)) ELSE rng \in 0..MaxEntropy
    /\ clusters = <<>>
    /\ used_positions = {}
    /\ center_log = <<>>
    /\ last_call = [poi_type |-> "NONE", num_clusters |-> 0, nodes_per_cluster |-> 0,
                    before |-> 0]
    /\ poi_config = <<>>
    /\ pc = "charging"
    /\ pg_run = 1
    /\ pg_prev_clusters = <<>>
    /\ WsIdle
    /\ MapIdle
    /\ LdIdle

NextPG ==
    \/ generate_charging_clusters
    \/ generate_pickup_clusters
    \/ generate_dropoff_clusters
    \/ main_to_poi_config

SpecPG == InitPG /\ [][NextPG]_vars

\* ------------------------------------------------------------------------
\* Scenario B: POIGenerator on an open floor of 20 x 20 cells
\* ------------------------------------------------------------------------
\* POIConfig.cluster_spacing, the default
cluster_spacing_default == 10

\* a map of 20 x 20 walkable cells, every cell accessible (robot radius 0, no edge
\* margin), inter_cluster_spacing = 10, 3 charging clusters requested
ScenarioB ==
    [width |-> 20, height |-> 20, radius_pixels |-> 0, edge_margin |-> 0,
     inter_cluster_spacing |-> 10, num_clusters |-> 3]

\* the generator is constructed a second time with the same arguments:
\* POIGenerator.__init__ empties clusters and used_positions and seeds the generator
run_again_pg ==
    /\ pc = "pickup"
    /\ pg_run = 1
    /\ pg_run' = 2
    /\ pg_prev_clusters' = clusters
    /\ clusters' = <<>>
    /\ used_positions' = {}
    /\ center_log' = <<>>
    /\ last_call' = [poi_type |-> "NONE", num_clusters |-> 0, nodes_per_cluster |-> 0,
                     before |-> 0]
    /\ IF seed # None THEN rng' = seed_rng(Val(seed)) ELSE rng' \in 0..MaxEntropy
    /\ pc' = "charging"
    /\ UNCHANGED <<map_width, map_height, static_map, inflated_map, radius_pixels,
                   edge_margin, cluster_spacing, inter_cluster_spacing, seed, args,
                   poi_config>>
    /\ UNCHANGED <<ws_vars, map_vars, ld_vars, fn_vars>>

\* generate_charging_clusters(3, nodes_per_cluster) for every seed up to MaxSeedB,
\* the spacing of the nodes at its default and at half the spacing of the clusters
InitB ==
    /\ map_width = ScenarioB.width
    /\ map_height = ScenarioB.height
    /\ static_map = OpenMap
    /\ radius_pixels = ScenarioB.radius_pixels
    /\ edge_margin = ScenarioB.edge_margin
    /\ cluster_spacing \in {ScenarioB.inter_cluster_spacing \div 2, cluster_spacing_default}
    /\ inter_cluster_spacing = ScenarioB.inter_cluster_spacing
    /\ args \in {[num_clusters |-> Some(ScenarioB.num_clusters), nodes_per_cluster |-> n] :
                    n \in {None, Some(1), Some(2)}}
    /\ inflated_map = inflate_map_pg(static_map, radius_pixels, edge_margin)
    /\ seed \in {Some(s) : s \in 0..MaxSeedB}
    /\ rng = seed_rng(Val(seed))
    /\ clusters = <<>>
    /\ used_positions = {}
    /\ center_log = <<>>
    /\ last_call = [poi_type |-> "NONE", num_clusters |-> 0, nodes_per_cluster |-> 0,
                    before |-> 0]
    /\ poi_config = <<>>
    /\ pc = "charging"
    /\ pg_run = 1
    /\ pg_prev_clusters = <<>>
    /\ WsIdle
    /\ MapIdle
    /\ LdIdle

NextB ==
    \/ generate_charging_clusters
    \/ run_again_pg

SpecB == InitB /\ [][NextB]_vars

\* ------------------------------------------------------------------------
\* warehouse_setup.py
\* ------------------------------------------------------------------------
\* WarehouseConfig defaults
num_charging_default == 6
charging_clusters_default == 2
num_pickup_default == 16
pickup_clusters_default == 4
num_dropoff_default == 16
dropoff_clusters_default == 4

\* poi_generator.py is not running
PgIdle ==
    /\ map_width = Width
    /\ map_height = Height
    /\ static_map = [c \in Cells |-> TRUE]
    /\ inflated_map = [c \in Cells |-> TRUE]
    /\ radius_pixels = 0
    /\ edge_margin = 0
    /\ cluster_spacing = 0
    /\ inter_cluster_spacing = 0
    /\ seed = None
    /\ rng = 0
    /\ clusters = <<>>
    /\ used_positions = {}
    /\ center_log = <<>>
    /\ last_call = [poi_type |-> "NONE", num_clusters |-> 0, nodes_per_cluster |-> 0,
                    before |-> 0]
    /\ args = [num_clusters |-> None, nodes_per_cluster |-> None]
    /\ poi_config = <<>>
    /\ pc = "off"
    /\ pg_run = 0
    /\ pg_prev_clusters = <<>>

\* cells the map may leave accessible; get_accessible_cells(inflated_map) keeps a
\* margin of 5 cells, so x >= 5 and y >= 5
CellPool == {<<5, 5>>, <<13, 5>>, <<15, 5>>, <<45, 5>>, <<45, 13>>}

\* get_accessible_cells lists the cells row by row: for y ...: for x ...
RECURSIVE row_major_of(_)
row_major_of(S) ==
    IF S = {} THEN <<>>
    ELSE LET first == CHOOSE c \in S :
                          \A d \in S : c[2] < d[2] \/ (c[2] = d[2] /\ c[1] <= d[1])
         IN <<first>> \o row_major_of(S \ {first})

\* variant: every position is a valid cluster center
gcp_is_valid_cluster_center_any(pos, cluster_centers, min_cluster_dist) == TRUE

\* generate_clustered_pois.is_valid_cluster_center
gcp_is_valid_cluster_center(pos, cluster_centers, min_cluster_dist) ==
    \A k \in 1..Len(cluster_centers) :
        ~distance_lt(pos, cluster_centers[k], min_cluster_dist)

\* generate_clustered_pois.is_valid_poi_pos
gcp_is_valid_poi_pos(pos, used, min_poi_dist) ==
    /\ pos \notin used
    /\ \A existing \in used : ~distance_lt(pos, existing, min_poi_dist)

\* "Find cluster centers": for cell in cells: if len(cluster_centers) >= num_clusters: break
RECURSIVE gcp_find_centers(_, _, _, _, _)
gcp_find_centers(cells, k, cluster_centers, num_clusters, min_cluster_dist) ==
    IF k > Len(cells) \/ Len(cluster_centers) >= num_clusters THEN cluster_centers
    ELSE IF gcp_is_valid_cluster_center(cells[k], cluster_centers, min_cluster_dist)
         THEN gcp_find_centers(cells, k + 1, Append(cluster_centers, cells[k]),
                               num_clusters, min_cluster_dist)
         ELSE gcp_find_centers(cells, k + 1, cluster_centers, num_clusters,
                               min_cluster_dist)

\* variant: no warning is printed
gcp_warns_never(cluster_centers, num_clusters) == FALSE

\* if len(cluster_centers) < num_clusters: print("[WARNING] Could only create ...")
gcp_warns(cluster_centers, num_clusters) == Len(cluster_centers) < num_clusters

\* for pos in nearby: if added >= cluster_pois: break; if is_valid_poi_pos(pos): ...
\* acc = [pois, used, poi_count]
RECURSIVE gcp_populate_loop(_, _, _, _, _, _, _, _, _, _)
gcp_populate_loop(nearby, k, added, cluster_pois, acc, poi_type, id_prefix, center, i, min_poi_dist) ==
    IF k > Len(nearby) \/ added >= cluster_pois THEN acc
    ELSE IF gcp_is_valid_poi_pos(nearby[k], acc.used, min_poi_dist)
         THEN gcp_populate_loop(nearby, k + 1, added + 1, cluster_pois,
                  [pois |-> Append(acc.pois,
                                   [id |-> id_prefix \o str_int(acc.poi_count),
                                    type |-> poi_type,
                                    x |-> nearby[k][1],
                                    y |-> nearby[k][2],
                                    active |-> TRUE,
                                    cluster_center |-> center,
                                    cluster_id |-> i,
                                    generated |-> TRUE]),
                   used |-> acc.used \cup {nearby[k]},
                   poi_count |-> acc.poi_count + 1,
                   rng |-> acc.rng],
                  poi_type, id_prefix, center, i, min_poi_dist)
         ELSE gcp_populate_loop(nearby, k + 1, added, cluster_pois, acc, poi_type,
                                id_prefix, center, i, min_poi_dist)

\* "Populate each cluster": for i, center in enumerate(cluster_centers); i is 0-based
RECURSIVE gcp_populate_clusters(_, _, _, _, _, _, _, _, _, _)
gcp_populate_clusters(i, cluster_centers, cells, pois_per_cluster, remaining, acc, poi_type, id_prefix, min_cluster_dist, min_poi_dist) ==
    IF i >= Len(cluster_centers) THEN acc
    ELSE LET center == cluster_centers[i + 1]
             cluster_pois == IF i < remaining THEN pois_per_cluster + 1
                             ELSE pois_per_cluster
             Near(c) == distance_lt(c, center, (min_cluster_dist \div 2) + 10)
             sh == shuffle(SelectSeq(cells, Near), acc.rng)
             acc2 == gcp_populate_loop(sh.x, 1, 0, cluster_pois,
                                       [acc EXCEPT !.rng = sh.rng],
                                       poi_type, id_prefix, center, i, min_poi_dist)
         IN gcp_populate_clusters(i + 1, cluster_centers, cells, pois_per_cluster,
                                  remaining, acc2, poi_type, id_prefix,
                                  min_cluster_dist, min_poi_dist)

Max2(a, b) == IF a >= b THEN a ELSE b

\* generate_clustered_pois(accessible_cells, num_pois, num_clusters, poi_type, id_prefix,
\*                         min_cluster_dist, min_poi_dist, used_positions, seed),
\* r is the state of the global generator at the call.  num_pois // num_clusters
\* raises ZeroDivisionError when num_clusters is 0.
generate_clustered_pois(cells0, num_pois, num_clusters, poi_type, id_prefix, min_cluster_dist, min_poi_dist, used, seed_arg, r) ==
    LET r0 == IF seed_arg # None THEN seed_rng(Val(seed_arg)) ELSE r
    IN IF num_clusters = 0
       THEN [raised |-> TRUE, pois |-> <<>>, used |-> used, rng |-> r0,
             cluster_centers |-> <<>>, warned |-> FALSE]
       ELSE LET pois_per_cluster == Max2(1, num_pois \div num_clusters)
                remaining == num_pois - (pois_per_cluster * num_clusters)
                sh == shuffle(cells0, r0)
                cluster_centers == gcp_find_centers(sh.x, 1, <<>>, num_clusters,
                                                    min_cluster_dist)
                acc == gcp_populate_clusters(0, cluster_centers, sh.x, pois_per_cluster,
                           remaining,
                           [pois |-> <<>>, used |-> used, poi_count |-> 0, rng |-> sh.rng],
                           poi_type, id_prefix, min_cluster_dist, min_poi_dist)
            IN [raised |-> FALSE, pois |-> acc.pois, used |-> acc.used, rng |-> acc.rng,
                cluster_centers |-> cluster_centers,
                warned |-> gcp_warns(cluster_centers, num_clusters)]

\* Python truthiness of an optional integer: None and 0 are false
Truthy(o) == o # None /\ Val(o) # 0

\* main, --non-interactive: `if args.x: config.x = args.x`
\* interactive_setup: `int(text) if text else default`
main_configure ==
    /\ ws_pc = "main"
    /\ config' =
          IF ws_mode = "cli"
          THEN [seed |-> IF Truthy(ws_input.seed) THEN ws_input.seed ELSE None,
                num_charging |-> IF Truthy(ws_input.pois) THEN Val(ws_input.pois)
                                 ELSE num_charging_default,
                charging_clusters |-> IF Truthy(ws_input.clusters)
                                      THEN Val(ws_input.clusters)
                                      ELSE charging_clusters_default,
                num_pickup |-> IF Truthy(ws_input.pois) THEN Val(ws_input.pois)
                               ELSE num_pickup_default,
                pickup_clusters |-> IF Truthy(ws_input.clusters)
                                    THEN Val(ws_input.clusters)
                                    ELSE pickup_clusters_default,
                num_dropoff |-> IF Truthy(ws_input.pois) THEN Val(ws_input.pois)
                                ELSE num_dropoff_default,
                dropoff_clusters |-> IF Truthy(ws_input.clusters)
                                     THEN Val(ws_input.clusters)
                                     ELSE dropoff_clusters_default]
          ELSE [seed |-> ws_input.seed,
                num_charging |-> IF ws_input.pois # None THEN Val(ws_input.pois)
                                 ELSE num_charging_default,
                charging_clusters |-> IF ws_input.clusters # None
                                      THEN Val(ws_input.clusters)
                                      ELSE charging_clusters_default,
                num_pickup |-> IF ws_input.pois # None THEN Val(ws_input.pois)
                               ELSE num_pickup_default,
                pickup_clusters |-> IF ws_input.clusters # None
                                    THEN Val(ws_input.clusters)
                                    ELSE pickup_clusters_default,
                num_dropoff |-> IF ws_input.pois # None THEN Val(ws_input.pois)
                                ELSE num_dropoff_default,
                dropoff_clusters |-> IF ws_input.clusters # None
                                     THEN Val(ws_input.clusters)
                                     ELSE dropoff_clusters_default]
    /\ ws_pc' = "poi_config"
    /\ UNCHANGED <<ws_mode, ws_input, accessible_cells, ws_rng, seed_base,
                   ws_used_positions, ws_pois, ws_ret, ws_calls, ws_run, ws_prev_pois>>
    /\ UNCHANGED <<pg_vars, map_vars, ld_vars, fn_vars>>

\* generate_poi_config: used_positions = set();
\* seed_base = config.seed if config.seed is not None else random.randint(0, 10000)
generate_poi_config_begin ==
    /\ ws_pc = "poi_config"
    /\ ws_used_positions' = {}
    /\ IF config.seed # None
       THEN seed_base' = config.seed /\ ws_rng' = ws_rng
       ELSE /\ seed_base' = Some(randint(ws_rng, 0, 10000).value)
            /\ ws_rng' = randint(ws_rng, 0, 10000).rng
    /\ ws_pc' = "charging"
    /\ UNCHANGED <<ws_mode, ws_input, config, accessible_cells, ws_pois, ws_ret,
                   ws_calls, ws_run, ws_prev_pois>>
    /\ UNCHANGED <<pg_vars, map_vars, ld_vars, fn_vars>>

\* one generate_clustered_pois call of generate_poi_config
gcp_call(poi_type, id_prefix, num_pois, num_clusters, min_cluster_dist, min_poi_dist, seed_offset, next_pc) ==
    LET res == generate_clustered_pois(accessible_cells, num_pois, num_clusters,
                   poi_type, id_prefix, min_cluster_dist, min_poi_dist,
                   ws_used_positions, Some(Val(seed_base) + seed_offset), ws_rng)
    IN /\ ws_rng' = res.rng
       /\ IF res.raised
          THEN /\ ws_pc' = "raised"
               /\ UNCHANGED <<ws_used_positions, ws_pois, ws_ret, ws_calls>>
          ELSE /\ ws_pc' = next_pc
               /\ ws_used_positions' = res.used
               /\ ws_pois' = ws_pois \o res.pois
               /\ ws_ret' = [pois |-> res.pois]
               /\ ws_calls' = Append(ws_calls,
                                 [poi_type |-> poi_type,
                                  num_pois |-> num_pois,
                                  num_clusters |-> num_clusters,
                                  min_cluster_dist |-> min_cluster_dist,
                                  cluster_centers |-> res.cluster_centers,
                                  warned |-> res.warned])
       /\ UNCHANGED <<ws_mode, ws_input, config, accessible_cells, seed_base, ws_run,
                      ws_prev_pois>>
       /\ UNCHANGED <<pg_vars, map_vars, ld_vars, fn_vars>>

generate_poi_config_charging ==
    /\ ws_pc = "charging"
    /\ gcp_call("CHARGING", <<"C">>, config.num_charging, config.charging_clusters,
                40, 10, 0, "pickup")

generate_poi_config_pickup ==
    /\ ws_pc = "pickup"
    /\ gcp_call("PICKUP", <<"P", "U">>, config.num_pickup, config.pickup_clusters,
                35, 8, 1, "dropoff")

generate_poi_config_dropoff ==
    /\ ws_pc = "dropoff"
    /\ gcp_call("DROPOFF", <<"D", "O">>, config.num_dropoff, config.dropoff_clusters,
                35, 8, 2, "done")

\* the program is started a second time on the same image with the same inputs;
\* the new process has a freshly initialised generator
run_again ==
    /\ ws_pc = "done"
    /\ ws_run = 1
    /\ ws_run' = 2
    /\ ws_prev_pois' = ws_pois
    /\ ws_rng' \in 0..MaxEntropyWS
    /\ config' = [seed |-> None]
    /\ seed_base' = None
    /\ ws_used_positions' = {}
    /\ ws_pois' = <<>>
    /\ ws_ret' = [pois |-> <<>>]
    /\ ws_calls' = <<>>
    /\ ws_pc' = "main"
    /\ UNCHANGED <<ws_mode, ws_input, accessible_cells>>
    /\ UNCHANGED <<pg_vars, map_vars, ld_vars, fn_vars>>

InitWS ==
    /\ PgIdle
    /\ MapIdle
    /\ LdIdle
    /\ ws_mode \in {"cli", "interactive"}
    /\ ws_input \in [seed : {None} \cup {Some(n) : n \in 0..MaxSeed},
                     pois : {None} \cup {Some(n) : n \in 0..MaxPois},
                     clusters : {None} \cup {Some(n) : n \in 0..MaxNumClusters}]
    /\ config = [seed |-> None]
    /\ accessible_cells \in {row_major_of(S) : S \in SUBSET CellPool}
    /\ ws_rng \in 0..MaxEntropyWS
    /\ seed_base = None
    /\ ws_used_positions = {}
    /\ ws_pois = <<>>
    /\ ws_ret = [pois |-> <<>>]
    /\ ws_calls = <<>>
    /\ ws_pc = "main"
    /\ ws_run = 1
    /\ ws_prev_pois = <<>>

NextWS ==
    \/ main_configure
    \/ generate_poi_config_begin
    \/ generate_poi_config_charging
    \/ generate_poi_config_pickup
    \/ generate_poi_config_dropoff
    \/ run_again

SpecWS == InitWS /\ [][NextWS]_vars

\* ------------------------------------------------------------------------
\* prohibited_zone_generator.py
\* ------------------------------------------------------------------------
\* Lengths (floor size, centers, dimensions, radius, resolution) are integers that
\* count quarters of a metre, so that every quotient below is an exact rational and
\* floor and ceil are exact.  Rotations count thousandths of a degree.
FloorDiv(a, b) == a \div b

CeilDiv(a, b) == -((-a) \div b)

Min2(a, b) == IF a <= b THEN a ELSE b

Abs(a) == IF a < 0 THEN -a ELSE a

SeqMin(s) == CHOOSE m \in {s[k] : k \in 1..Len(s)} : \A k \in 1..Len(s) : m <= s[k]

SeqMax(s) == CHOOSE m \in {s[k] : k \in 1..Len(s)} : \A k \in 1..Len(s) : m >= s[k]

\* ProhibitedZoneGenerator.__init__: the grid dimensions and the all-walkable grid
grid_dim(floor_length, res) == CeilDiv(floor_length, res)

new_grid(gw, gh) == [y \in 1..gh |-> [x \in 1..gw |-> TRUE]]

\* variant: the marked cells are inverted instead of cleared
mark_cells_flip(g, S) ==
    [y \in 1..Len(g) |-> [x \in 1..Len(g[y]) |->
        IF <<x - 1, y - 1>> \in S THEN ~g[y][x] ELSE g[y][x]]]

\* self.grid[y][x] = False for the cells (x, y) of S
mark_cells(g, S) ==
    [y \in 1..Len(g) |-> [x \in 1..Len(g[y]) |-> g[y][x] /\ <<x - 1, y - 1>> \notin S]]

\* variant: the upper bounds of the cell range are excluded
mark_rectangle_obstacle_open(g, gw, gh, res, center_x, center_y, width, height) ==
    LET x1_px == Max2(0, Min2(FloorDiv(2 * center_x - width, 2 * res), gw - 1))
        x2_px == Max2(0, Min2(CeilDiv(2 * center_x + width, 2 * res), gw - 1))
        y1_px == Max2(0, Min2(FloorDiv(2 * center_y - height, 2 * res), gh - 1))
        y2_px == Max2(0, Min2(CeilDiv(2 * center_y + height, 2 * res), gh - 1))
    IN mark_cells(g, {c \in (x1_px..(x2_px - 1)) \X (y1_px..(y2_px - 1)) :
                          0 <= c[2] /\ c[2] < gh /\ 0 <= c[1] /\ c[1] < gw})

\* _mark_rectangle_obstacle: floor of the lower edge, ceil of the upper edge, clamped,
\* the closed range is marked.  (center - width / 2) / res = (2 center - width) / (2 res)
mark_rectangle_obstacle(g, gw, gh, res, center_x, center_y, width, height) ==
    LET x1_px == Max2(0, Min2(FloorDiv(2 * center_x - width, 2 * res), gw - 1))
        x2_px == Max2(0, Min2(CeilDiv(2 * center_x + width, 2 * res), gw - 1))
        y1_px == Max2(0, Min2(FloorDiv(2 * center_y - height, 2 * res), gh - 1))
        y2_px == Max2(0, Min2(CeilDiv(2 * center_y + height, 2 * res), gh - 1))
    IN mark_cells(g, {c \in (x1_px..x2_px) \X (y1_px..y2_px) :
                          0 <= c[2] /\ c[2] < gh /\ 0 <= c[1] /\ c[1] < gw})

\* _point_in_polygon: ray casting.  x, y and the vertices are in one common unit.
\* x <= xinters, with xinters = (y - p1y) * (p2x - p1x) / (p2y - p1y) + p1x, is
\* compared after multiplying by p2y - p1y, which is not 0 where it is evaluated.
RECURSIVE point_in_polygon_loop(_, _, _, _, _, _)
point_in_polygon_loop(x, y, vertices, i, p1, inside) ==
    IF i > Len(vertices) THEN inside
    ELSE LET p2 == vertices[(i % Len(vertices)) + 1]
             d == p2[2] - p1[2]
             below == IF d > 0
                      THEN (x - p1[1]) * d <= (y - p1[2]) * (p2[1] - p1[1])
                      ELSE (x - p1[1]) * d >= (y - p1[2]) * (p2[1] - p1[1])
             crossing == /\ y > Min2(p1[2], p2[2])
                         /\ y <= Max2(p1[2], p2[2])
                         /\ x <= Max2(p1[1], p2[1])
                         /\ (p1[1] = p2[1] \/ below)
         IN point_in_polygon_loop(x, y, vertices, i + 1, p2,
                                  IF crossing THEN ~inside ELSE inside)

\* variant: the other half-open convention, min(p1y, p2y) <= y < max(p1y, p2y)
point_in_polygon_lower(x, y, vertices) ==
    Cardinality({i \in 1..Len(vertices) :
        LET p1 == vertices[i]
            p2 == vertices[(i % Len(vertices)) + 1]
            d == p2[2] - p1[2]
        IN /\ y >= Min2(p1[2], p2[2])
           /\ y < Max2(p1[2], p2[2])
           /\ IF d > 0 THEN (x - p1[1]) * d <= (y - p1[2]) * (p2[1] - p1[1])
              ELSE (x - p1[1]) * d >= (y - p1[2]) * (p2[1] - p1[1])}) % 2 = 1

point_in_polygon(x, y, vertices) ==
    point_in_polygon_loop(x, y, vertices, 1, vertices[1], FALSE)

\* _rasterize_polygon: a vertex coordinate divided by scale is a pixel coordinate
rasterize_polygon(g, gw, gh, scale, vertices) ==
    IF Len(vertices) < 3 THEN g
    ELSE LET xs == [k \in 1..Len(vertices) |-> vertices[k][1]]
             ys == [k \in 1..Len(vertices) |-> vertices[k][2]]
             x_min == Max2(0, FloorDiv(SeqMin(xs), scale))
             x_max == Min2(gw, CeilDiv(SeqMax(xs), scale))
             y_min == Max2(0, FloorDiv(SeqMin(ys), scale))
             y_max == Min2(gh, CeilDiv(SeqMax(ys), scale))
         IN mark_cells(g, {c \in (x_min..(x_max - 1)) \X (y_min..(y_max - 1)) :
                               point_in_polygon(c[1] * scale, c[2] * scale, vertices)})

\* cos and sin of a rotation by a multiple of 90 degrees (the only rotations the
\* model sends down the rotated path), taken exact
cos_r(rotation_deg) ==
    LET q == (rotation_deg \div 90000) % 4
    IN CASE q = 0 -> 1 [] q = 1 -> 0 [] q = 2 -> -1 [] OTHER -> 0

sin_r(rotation_deg) ==
    LET q == (rotation_deg \div 90000) % 4
    IN CASE q = 0 -> 0 [] q = 1 -> 1 [] q = 2 -> 0 [] OTHER -> -1

\* _mark_rotated_rectangle_obstacle: the corners, in halves of the length unit
mark_rotated_rectangle_obstacle(g, gw, gh, res, center_x, center_y, width, height, rotation_deg) ==
    LET corners_local == << <<-width, -height>>, <<width, -height>>,
                            <<width, height>>, <<-width, height>> >>
        corners_world == [k \in 1..4 |->
            <<2 * center_x + corners_local[k][1] * cos_r(rotation_deg)
                           - corners_local[k][2] * sin_r(rotation_deg),
              2 * center_y + corners_local[k][1] * sin_r(rotation_deg)
                           + corners_local[k][2] * cos_r(rotation_deg)>>]
    IN rasterize_polygon(g, gw, gh, 2 * res, corners_world)

\* _mark_circle_obstacle: the bounding box is scanned with range(x_min, x_max) and
\* range(y_min, y_max); distance <= radius_px is compared squared, times res * res
mark_circle_obstacle(g, gw, gh, res, center_x, center_y, radius) ==
    LET x_min == Max2(0, FloorDiv(center_x - radius, res))
        x_max == Min2(gw, CeilDiv(center_x + radius, res))
        y_min == Max2(0, FloorDiv(center_y - radius, res))
        y_max == Min2(gh, CeilDiv(center_y + radius, res))
    IN mark_cells(g, {c \in (x_min..(x_max - 1)) \X (y_min..(y_max - 1)) :
                          /\ radius >= 0
                          /\ (c[1] * res - center_x) * (c[1] * res - center_x)
                               + (c[2] * res - center_y) * (c[2] * res - center_y)
                             <= radius * radius})

\* abs(rotation) < 0.01 or abs(rotation - 180) < 0.01
is_axis_aligned(rotation) == Abs(rotation) < 10 \/ Abs(rotation - 180000) < 10

\* variant: charging stations are marked like every other object
mark_object_obstacle_all(g, gw, gh, res, obj) ==
    IF is_axis_aligned(obj.rotation)
    THEN mark_rectangle_obstacle(g, gw, gh, res, obj.center[1], obj.center[3],
                                 obj.dimensions[1], obj.dimensions[3])
    ELSE mark_rotated_rectangle_obstacle(g, gw, gh, res, obj.center[1], obj.center[3],
                                         obj.dimensions[1], obj.dimensions[3], obj.rotation)

\* _mark_object_obstacle: center[0], center[2] and dimensions[0], dimensions[2]
mark_object_obstacle(g, gw, gh, res, obj) ==
    IF obj.model_index = 5 THEN g
    ELSE IF is_axis_aligned(obj.rotation)
    THEN mark_rectangle_obstacle(g, gw, gh, res, obj.center[1], obj.center[3],
                                 obj.dimensions[1], obj.dimensions[3])
    ELSE mark_rotated_rectangle_obstacle(g, gw, gh, res, obj.center[1], obj.center[3],
                                         obj.dimensions[1], obj.dimensions[3], obj.rotation)

\* _mark_zone_obstacle
mark_zone_obstacle(g, gw, gh, res, zone) ==
    IF zone.shape = "rectangle"
    THEN IF Len(zone.dimensions) < 2 THEN g
         ELSE IF is_axis_aligned(zone.rotation)
         THEN mark_rectangle_obstacle(g, gw, gh, res, zone.center[1], zone.center[2],
                                      zone.dimensions[1], zone.dimensions[2])
         ELSE mark_rotated_rectangle_obstacle(g, gw, gh, res, zone.center[1], zone.center[2],
                                              zone.dimensions[1], zone.dimensions[2],
                                              zone.rotation)
    ELSE IF zone.shape = "circle"
    THEN IF Len(zone.dimensions) < 1 THEN g
         ELSE mark_circle_obstacle(g, gw, gh, res, zone.center[1], zone.center[2],
                                   zone.dimensions[1])
    ELSE g

\* one shape of the layout: an object or a prohibited zone
mark_item(g, gw, gh, res, item) ==
    IF item.kind = "object" THEN mark_object_obstacle(g, gw, gh, res, item.shape)
    ELSE mark_zone_obstacle(g, gw, gh, res, item.shape)

\* generate_grid: the objects, then the prohibited zones, in list order; st is
\* [grid, log], log gets one entry per shape with the grid before and after it
RECURSIVE mark_items(_, _, _, _, _, _)
mark_items(st, gw, gh, res, items, k) ==
    IF k > Len(items) THEN st
    ELSE LET after == mark_item(st.grid, gw, gh, res, items[k])
         IN mark_items([grid |-> after,
                        log |-> Append(st.log, [item |-> items[k], before |-> st.grid,
                                                after |-> after])],
                       gw, gh, res, items, k + 1)

layout_items(lay) ==
    [k \in 1..Len(lay.objects) |-> [kind |-> "object", shape |-> lay.objects[k]]]
    \o [k \in 1..Len(lay.prohibited_zones) |->
            [kind |-> "zone", shape |-> lay.prohibited_zones[k]]]

grid_width == grid_dim(layout.floor_size[1], resolution_m_per_px)

grid_height == grid_dim(layout.floor_size[2], resolution_m_per_px)

generate_grid ==
    /\ tool = "prohibited_zone_generator"
    /\ map_pc = "start"
    /\ LET st == mark_items([grid |-> grid, log |-> <<>>], grid_width, grid_height,
                            resolution_m_per_px, layout_items(layout), 1)
       IN /\ grid' = st.grid
          /\ mark_log' = st.log
    /\ map_pc' = "generated"
    /\ UNCHANGED <<tool, layout, resolution_m_per_px, image, heap, binary_map,
                   ws_inflated_map, map_file, vw, ma, ma_config, inflate_in>>
    /\ UNCHANGED <<pg_vars, ws_vars, ld_vars, fn_vars>>

\* ------------------------------------------------------------------------
\* map_layout.txt: a text file is the sequence of its lines, a line the sequence of
\* its characters, the line feed included
\* ------------------------------------------------------------------------
Whitespace == {" ", "\n", "\t"}

is_digits(tok) == tok # <<>> /\ \A k \in 1..Len(tok) : \E d \in 1..10 : Digits[d] = tok[k]

digit_value(ch) == (CHOOSE d \in 1..10 : Digits[d] = ch) - 1

\* int(tok) of a string of decimal digits
RECURSIVE int_of(_)
int_of(tok) == IF Len(tok) = 1 THEN digit_value(tok[1])
               ELSE 10 * int_of(SubSeq(tok, 1, Len(tok) - 1)) + digit_value(tok[Len(tok)])

\* str.split(): the maximal runs of characters that are not whitespace
RECURSIVE split_from(_, _, _, _)
split_from(line, k, cur, toks) ==
    IF k > Len(line) THEN (IF cur = <<>> THEN toks ELSE Append(toks, cur))
    ELSE IF line[k] \in Whitespace
    THEN split_from(line, k + 1, <<>>, IF cur = <<>> THEN toks ELSE Append(toks, cur))
    ELSE split_from(line, k + 1, Append(cur, line[k]), toks)

split(line) == split_from(line, 1, <<>>, <<>>)

\* str.rstrip(): without the trailing whitespace
RECURSIVE rstrip(_)
rstrip(line) == IF line # <<>> /\ line[Len(line)] \in Whitespace
                THEN rstrip(SubSeq(line, 1, Len(line) - 1)) ELSE line

\* str.rstrip('\n'): without the trailing line feeds
RECURSIVE rstrip_newline(_)
rstrip_newline(line) == IF line # <<>> /\ line[Len(line)] = "\n"
                        THEN rstrip_newline(SubSeq(line, 1, Len(line) - 1)) ELSE line

\* "".join("." if cell else "#" for cell in row) + "\n"
row_line(row) == [x \in 1..Len(row) |-> IF row[x] THEN "." ELSE "#"] \o <<"\n">>

\* f"{width} {height}\n"
header_line(width, height) == str_int(width) \o <<" ">> \o str_int(height) \o <<"\n">>

\* export_to_bitmap_file: the header, then one line per row of the grid
export_lines(g, gw, gh) ==
    <<header_line(gw, gh)>> \o [y \in 1..Len(g) |-> row_line(g[y])]

export_to_bitmap_file ==
    /\ tool = "prohibited_zone_generator"
    /\ map_pc = "generated"
    /\ map_file' = Some(export_lines(grid, grid_width, grid_height))
    /\ map_pc' = "written"
    /\ UNCHANGED <<tool, layout, resolution_m_per_px, grid, mark_log, image, heap,
                   binary_map, ws_inflated_map, vw, ma, ma_config, inflate_in>>
    /\ UNCHANGED <<pg_vars, ws_vars, ld_vars, fn_vars>>

\* ------------------------------------------------------------------------
\* map_baker.py
\* ------------------------------------------------------------------------
\* convert_png_to_grid, step 5: img is the image after the resize to target_w x target_h,
\* pixels = list(img.getdata()) is read as pixels[y * target_w + x]
convert_lines(img, target_w, target_h, threshold) ==
    <<header_line(target_w, target_h)>>
    \o [y \in 1..target_h |->
           [x \in 1..target_w |-> IF img[y][x] < threshold THEN "#" ELSE "."] \o <<"\n">>]

image_height(img) == Len(img)

image_width(img) == IF img = <<>> THEN 0 ELSE Len(img[1])

convert_png_to_grid ==
    /\ tool = "map_baker"
    /\ map_pc = "start"
    /\ map_file' = Some(convert_lines(image, image_width(image), image_height(image), 128))
    /\ map_pc' = "written"
    /\ UNCHANGED <<tool, layout, resolution_m_per_px, grid, mark_log, image, heap,
                   binary_map, ws_inflated_map, vw, ma, ma_config, inflate_in>>
    /\ UNCHANGED <<pg_vars, ws_vars, ld_vars, fn_vars>>

\* ------------------------------------------------------------------------
\* Mutable grids: a grid is a Python list of row lists.  heap is the sequence of the
\* row lists that exist, a grid is the sequence of the indices of its rows in heap.
\* ------------------------------------------------------------------------
grid_value(h, rows) == [k \in 1..Len(rows) |-> h[rows[k]]]

\* new row lists holding the given values
alloc_rows(h, values) ==
    [heap |-> h \o values, rows |-> [k \in 1..Len(values) |-> Len(h) + k]]

\* variant: the copy is the grid itself (inflated = binary_map)
copy_rows_alias(h, rows) == [heap |-> h, rows |-> rows]

\* [row.copy() for row in grid]
copy_rows(h, rows) == alloc_rows(h, grid_value(h, rows))

\* ------------------------------------------------------------------------
\* warehouse_setup.py: image_to_map, save_map_layout, inflate_map
\* ------------------------------------------------------------------------
\* image_to_map: pixel > threshold is walkable
image_to_map_rows(img, output_width, output_height) ==
    [y \in 1..output_height |-> [x \in 1..output_width |-> img[y][x] > 128]]

image_to_map ==
    /\ tool = "warehouse_setup"
    /\ map_pc = "start"
    /\ LET a == alloc_rows(heap, image_to_map_rows(image, image_width(image),
                                                   image_height(image)))
       IN /\ heap' = a.heap
          /\ binary_map' = a.rows
    /\ map_pc' = "converted"
    /\ UNCHANGED <<tool, layout, resolution_m_per_px, grid, mark_log, image,
                   ws_inflated_map, map_file, vw, ma, ma_config, inflate_in>>
    /\ UNCHANGED <<pg_vars, ws_vars, ld_vars, fn_vars>>

\* save_map_layout: one line per row, nothing else
save_lines(bm) == [y \in 1..Len(bm) |-> row_line(bm[y])]

save_map_layout ==
    /\ tool = "warehouse_setup"
    /\ map_pc = "converted"
    /\ map_file' = Some(save_lines(grid_value(heap, binary_map)))
    /\ map_pc' = "saved"
    /\ UNCHANGED <<tool, layout, resolution_m_per_px, grid, mark_log, image, heap,
                   binary_map, ws_inflated_map, vw, ma, ma_config, inflate_in>>
    /\ UNCHANGED <<pg_vars, ws_vars, ld_vars, fn_vars>>

\* inflate_map, the loop "for dx in range(-radius_pixels, radius_pixels + 1)" from dx on:
\* the cell (x + dx, y + dy) is closed if it is within the radius and inside the grid
RECURSIVE ws_close_dx(_, _, _, _, _, _, _, _, _)
ws_close_dx(h, inflated, width, height, x, y, r, dy, dx) ==
    LET ny == y + dy
        nx == x + dx
    IN IF dx > r THEN h
       ELSE IF /\ dx * dx + dy * dy <= r * r
               /\ 0 <= ny /\ ny < height /\ 0 <= nx /\ nx < width
       THEN ws_close_dx([h EXCEPT ![inflated[ny + 1]][nx + 1] = FALSE], inflated,
                        width, height, x, y, r, dy, dx + 1)
       ELSE ws_close_dx(h, inflated, width, height, x, y, r, dy, dx + 1)

\* inflate_map, the loop "for dy in range(-radius_pixels, radius_pixels + 1)" from dy on
RECURSIVE ws_close_dy(_, _, _, _, _, _, _, _)
ws_close_dy(h, inflated, width, height, x, y, r, dy) ==
    IF dy > r THEN h
    ELSE ws_close_dy(ws_close_dx(h, inflated, width, height, x, y, r, dy, -r),
                     inflated, width, height, x, y, r, dy + 1)

\* inflate_map, the loop "for x in range(width)" of row y from x on: an obstacle cell of
\* bm closes the cells around it
RECURSIVE ws_inflate_x(_, _, _, _, _, _, _, _)
ws_inflate_x(h, bm, inflated, width, height, r, y, x) ==
    IF x >= width THEN h
    ELSE IF ~h[bm[y + 1]][x + 1]
    THEN ws_inflate_x(ws_close_dy(h, inflated, width, height, x, y, r, -r),
                      bm, inflated, width, height, r, y, x + 1)
    ELSE ws_inflate_x(h, bm, inflated, width, height, r, y, x + 1)

\* inflate_map, the loop "for y in range(height)" from y on
RECURSIVE ws_inflate_y(_, _, _, _, _, _, _)
ws_inflate_y(h, bm, inflated, width, height, r, y) ==
    IF y >= height THEN h
    ELSE ws_inflate_y(ws_inflate_x(h, bm, inflated, width, height, r, y, 0),
                      bm, inflated, width, height, r, y + 1)

\* inflate_map(binary_map, radius_pixels): returns [heap, rows]
inflate_map_ws(h, bm, r) ==
    LET height == Len(bm)
        width == IF bm = <<>> THEN 0 ELSE Len(h[bm[1]])
        inflated == copy_rows(h, bm)
    IN [heap |-> ws_inflate_y(inflated.heap, bm, inflated.rows, width, height, r, 0),
        rows |-> inflated.rows]

inflate_map ==
    /\ tool = "warehouse_setup"
    /\ map_pc = "saved"
    /\ LET res == inflate_map_ws(heap, binary_map, ma_config.radius_pixels)
       IN /\ heap' = res.heap
          /\ ws_inflated_map' = res.rows
    /\ inflate_in' = [inflate_in EXCEPT !.ws = grid_value(heap, binary_map)]
    /\ map_pc' = "written"
    /\ UNCHANGED <<tool, layout, resolution_m_per_px, grid, mark_log, image,
                   binary_map, map_file, vw, ma, ma_config>>
    /\ UNCHANGED <<pg_vars, ws_vars, ld_vars, fn_vars>>

\* ------------------------------------------------------------------------
\* visualize_warehouse.py: load_map
\* ------------------------------------------------------------------------
\* the cells of one line: '.' walkable, '#' obstacle, every other character skipped,
\* padded with obstacles up to width and cut at width
load_map_row(line, width) ==
    LET chars == SelectSeq(rstrip_newline(line), LAMBDA ch : ch = "." \/ ch = "#")
    IN [x \in 1..width |-> IF x <= Len(chars) THEN chars[x] = "." ELSE FALSE]

\* load_map: raises on a first line that is not "<int> <int>"
load_map_of(lines) ==
    LET dims == IF lines = <<>> THEN <<>> ELSE split(lines[1])
    IN IF lines = <<>> \/ Len(dims) < 2 \/ ~is_digits(dims[1]) \/ ~is_digits(dims[2])
       THEN [raised |-> TRUE, grid |-> <<>>, width |-> 0, height |-> 0]
       ELSE LET width == int_of(dims[1])
                height == int_of(dims[2])
            IN [raised |-> FALSE,
                grid |-> [y \in 1..height |->
                             IF y + 1 <= Len(lines) THEN load_map_row(lines[y + 1], width)
                             ELSE [x \in 1..width |-> FALSE]],
                width |-> width, height |-> height]

load_map ==
    /\ map_pc = "written"
    /\ vw = None
    /\ vw' = Some(load_map_of(Val(map_file)))
    /\ UNCHANGED <<tool, layout, resolution_m_per_px, grid, mark_log, image, heap,
                   binary_map, ws_inflated_map, map_file, ma, ma_config, inflate_in,
                   map_pc>>
    /\ UNCHANGED <<pg_vars, ws_vars, ld_vars, fn_vars>>

\* ------------------------------------------------------------------------
\* poi_generator.py: MapAccessibility(map_path, config)
\* ------------------------------------------------------------------------
\* _load_map: every line of the file is a row; '.', '0' and ' ' are walkable, rows
\* shorter than the longest line are padded with walkable cells
load_map_pg(lines) ==
    LET height == Len(lines)
        width == IF lines = <<>> THEN 0
                 ELSE SeqMax([k \in 1..Len(lines) |-> Len(rstrip(lines[k]))])
    IN [width |-> width, height |-> height,
        static_map |-> [y \in 1..height |-> [x \in 1..width |->
            LET line == rstrip(lines[y])
            IN IF x <= Len(line) THEN line[x] \in {".", "0", " "} ELSE TRUE]]]

\* _inflate_map, the loop "for dx in range(-radius_pixels, radius_pixels + 1)" from dx on:
\* the cell (x + dx, y + dy) is closed if it is within the radius and inside the grid and open
RECURSIVE ma_close_dx(_, _, _, _, _, _, _, _, _)
ma_close_dx(h, inflated, width, height, x, y, r, dy, dx) ==
    LET ny == y + dy
        nx == x + dx
    IN IF dx > r THEN h
       ELSE IF /\ dx * dx + dy * dy <= r * r
               /\ 0 <= ny /\ ny < height /\ 0 <= nx /\ nx < width
               /\ h[inflated[ny + 1]][nx + 1]
       THEN ma_close_dx([h EXCEPT ![inflated[ny + 1]][nx + 1] = FALSE], inflated,
                        width, height, x, y, r, dy, dx + 1)
       ELSE ma_close_dx(h, inflated, width, height, x, y, r, dy, dx + 1)

\* _inflate_map, the loop "for dy in range(-radius_pixels, radius_pixels + 1)" from dy on
RECURSIVE ma_close_dy(_, _, _, _, _, _, _, _)
ma_close_dy(h, inflated, width, height, x, y, r, dy) ==
    IF dy > r THEN h
    ELSE ma_close_dy(ma_close_dx(h, inflated, width, height, x, y, r, dy, -r),
                     inflated, width, height, x, y, r, dy + 1)

\* _inflate_map, the loop "for x in range(width)" of row y from x on: an obstacle cell of
\* sm closes the cells around it
RECURSIVE ma_inflate_x(_, _, _, _, _, _, _, _)
ma_inflate_x(h, sm, inflated, width, height, r, y, x) ==
    IF x >= width THEN h
    ELSE IF ~h[sm[y + 1]][x + 1]
    THEN ma_inflate_x(ma_close_dy(h, inflated, width, height, x, y, r, -r),
                      sm, inflated, width, height, r, y, x + 1)
    ELSE ma_inflate_x(h, sm, inflated, width, height, r, y, x + 1)

\* _inflate_map, the loop "for y in range(height)" from y on
RECURSIVE ma_inflate_y(_, _, _, _, _, _, _)
ma_inflate_y(h, sm, inflated, width, height, r, y) ==
    IF y >= height THEN h
    ELSE ma_inflate_y(ma_inflate_x(h, sm, inflated, width, height, r, y, 0),
                      sm, inflated, width, height, r, y + 1)

\* _inflate_map, the second pass, row y from x on: the open cells near the map edges
\* are closed
RECURSIVE ma_edge_x(_, _, _, _, _, _, _)
ma_edge_x(h, inflated, width, height, margin, y, x) ==
    IF x >= width THEN h
    ELSE IF /\ h[inflated[y + 1]][x + 1]
            /\ x < margin \/ x >= width - margin \/ y < margin \/ y >= height - margin
    THEN ma_edge_x([h EXCEPT ![inflated[y + 1]][x + 1] = FALSE], inflated,
                   width, height, margin, y, x + 1)
    ELSE ma_edge_x(h, inflated, width, height, margin, y, x + 1)

\* _inflate_map, the second pass from row y on
RECURSIVE ma_edge_y(_, _, _, _, _, _)
ma_edge_y(h, inflated, width, height, margin, y) ==
    IF y >= height THEN h
    ELSE ma_edge_y(ma_edge_x(h, inflated, width, height, margin, y, 0),
                   inflated, width, height, margin, y + 1)

\* _inflate_map on the heap: returns [heap, rows]
inflate_map_ma(h, sm, width, height, r, margin) ==
    LET inflated == copy_rows(h, sm)
        closed == ma_inflate_y(inflated.heap, sm, inflated.rows, width, height, r, 0)
    IN [heap |-> ma_edge_y(closed, inflated.rows, width, height, margin, 0),
        rows |-> inflated.rows]

\* the grid _inflate_map computes from the static grid sm, as a value
inflate_value(sm, width, height, r, margin) ==
    LET a == alloc_rows(<<>>, sm)
        res == inflate_map_ma(a.heap, a.rows, width, height, r, margin)
    IN grid_value(res.heap, res.rows)

MapAccessibility_init ==
    /\ map_pc = "written"
    /\ ma = None
    /\ LET loaded == load_map_pg(Val(map_file))
           a == alloc_rows(heap, loaded.static_map)
           res == inflate_map_ma(a.heap, a.rows, loaded.width, loaded.height,
                                 ma_config.radius_pixels, ma_config.edge_margin)
       IN /\ heap' = res.heap
          /\ ma' = Some([width |-> loaded.width, height |-> loaded.height,
                         static_map |-> a.rows, inflated_map |-> res.rows])
          /\ inflate_in' = [inflate_in EXCEPT !.ma = loaded.static_map]
    /\ UNCHANGED <<tool, layout, resolution_m_per_px, grid, mark_log, image,
                   binary_map, ws_inflated_map, map_file, vw, ma_config, map_pc>>
    /\ UNCHANGED <<pg_vars, ws_vars, ld_vars, fn_vars>>

\* ------------------------------------------------------------------------
\* The inputs of the map pipeline
\* ------------------------------------------------------------------------
\* the floor, in quarters of a metre: not square, not a multiple of every resolution
FloorSize == <<4 * MaxFloor, 4 * MaxFloor - 2>>

\* resolution_m_per_px: half a metre, one metre
Resolutions == {2, 4}

Object(mi, c, d, rot) ==
    [model_index |-> mi, center |-> <<c[1], 0, c[2]>>, dimensions |-> <<d[1], 4, d[2]>>,
     rotation |-> rot]

Zone(sh, c, d, rot) == [shape |-> sh, center |-> c, dimensions |-> d, rotation |-> rot]

\* objects of a layout: shelves (modelIndex 1) and charging stations (modelIndex 5),
\* centered on a cell corner or between two or on a corner of the floor, unrotated,
\* nearly unrotated, turned by nearly 180 degrees, or turned by 90 degrees
Objects ==
    {Object(1, <<4, 4>>, <<2, MaxDim>>, 0), Object(1, <<6, 5>>, <<MaxDim, MaxDim>>, 0)}
    \cup {Object(1, <<6, 5>>, <<2, MaxDim>>, rot) : rot \in {9, 179995, 90000}}
    \cup {Object(5, <<4, 4>>, <<MaxDim, MaxDim>>, rot) : rot \in {0, 90000}}
    \cup {Object(1, <<4 * MaxFloor, 0>>, <<2, MaxDim>>, 0)}

Zones ==
    {Zone("circle", <<4, 4>>, <<2>>, 0), Zone("circle", <<6, 5>>, <<MaxDim>>, 0)}
    \cup {Zone("rectangle", <<6, 5>>, <<2, MaxDim>>, 179995), Zone("polygon", <<4, 4>>, <<2>>, 0)}

SeqsUpTo(S, n) == UNION {[1..k -> S] : k \in 0..n}

Layouts ==
    [floor_size : {FloorSize}, objects : SeqsUpTo(Objects, MaxObjects),
     prohibited_zones : SeqsUpTo(Zones, MaxZones)]

\* Scenario A: a floor of 10 m x 10 m at 1 m per pixel, one circular zone of radius
\* 1 m centered at (5 m, 5 m); robot radius 1 pixel, no edge margin
ScenarioA ==
    [layout |-> [floor_size |-> <<40, 40>>, objects |-> <<>>,
                 prohibited_zones |-> <<Zone("circle", <<20, 20>>, <<4>>, 0)>>],
     resolution_m_per_px |-> 4,
     ma_config |-> [radius_pixels |-> 1, edge_margin |-> 0]]

\* pixel values around the threshold of 128
PixelValues == {127, 128, 129}

\* the resized images: two rows of 1..MaxImage pixels
Images == UNION {[1..2 -> [1..w -> PixelValues]] : w \in 1..MaxImage}

InitMap ==
    /\ PgIdle
    /\ WsIdle
    /\ LdIdle
    /\ \/ /\ tool = "prohibited_zone_generator"
          /\ layout \in Layouts
          /\ resolution_m_per_px \in Resolutions
          /\ ma_config = [radius_pixels |-> MaxRadius, edge_margin |-> 0]
          /\ image = <<>>
       \/ /\ tool = "prohibited_zone_generator"
          /\ layout = ScenarioA.layout
          /\ resolution_m_per_px = ScenarioA.resolution_m_per_px
          /\ ma_config = ScenarioA.ma_config
          /\ image = <<>>
       \/ /\ tool \in {"warehouse_setup", "map_baker"}
          /\ layout = [floor_size |-> <<0, 0>>, objects |-> <<>>, prohibited_zones |-> <<>>]
          /\ resolution_m_per_px = 1
          /\ ma_config \in {[radius_pixels |-> MaxRadius, edge_margin |-> 0],
                           [radius_pixels |-> 0, edge_margin |-> MaxMargin]}
          /\ image \in Images
    /\ grid = new_grid(grid_width, grid_height)
    /\ mark_log = <<>>
    /\ heap = <<>>
    /\ binary_map = <<>>
    /\ ws_inflated_map = <<>>
    /\ map_file = None
    /\ vw = None
    /\ ma = None
    /\ inflate_in = [ws |-> <<>>, ma |-> <<>>]
    /\ map_pc = "start"

NextMap ==
    \/ generate_grid
    \/ export_to_bitmap_file
    \/ convert_png_to_grid
    \/ image_to_map
    \/ save_map_layout
    \/ inflate_map
    \/ load_map
    \/ MapAccessibility_init

SpecMap == InitMap /\ [][NextMap]_vars

\* ------------------------------------------------------------------------
\* Either POI generator runs
\* ------------------------------------------------------------------------
InitGen == InitPG \/ InitWS

NextGen == NextPG \/ NextWS

SpecGen == InitGen /\ [][NextGen]_vars

\* ------------------------------------------------------------------------
\* Properties of POIGenerator (SpecPG)
\* ------------------------------------------------------------------------
Center(k) == <<clusters[k].center_x, clusters[k].center_y>>

\* every (cluster, node index) pair of self.clusters
NodeSlots == {s \in (1..Len(clusters)) \X (1..MaxNodesPerCluster + max_pickup_per_cluster + 9) :
                 s[2] <= Len(clusters[s[1]].nodes)}
NodeAt(s) == clusters[s[1]].nodes[s[2]]

\* C1: every two distinct clusters of self.clusters, of the same or of different
\* categories, have centers at Euclidean distance >= inter_cluster_spacing.
C1_CenterSpacing ==
    \A i, j \in 1..Len(clusters) :
        i # j => DistSq(Center(i), Center(j)) >= inter_cluster_spacing * inter_cluster_spacing

C1_Witness ==
    /\ inter_cluster_spacing >= 2
    /\ \E i, j \in 1..Len(clusters) : clusters[i].poi_type # clusters[j].poi_type
    /\ \E i, j \in 1..Len(clusters) : i # j /\ clusters[i].poi_type = clusters[j].poi_type

\* C2: every two POI positions accepted in one run (nodes of any clusters, of any
\* categories) are at Euclidean distance >= cluster_spacing.
C2_PoiSpacing ==
    \A s, t \in NodeSlots :
        s # t => DistSq(NodeAt(s), NodeAt(t)) >= cluster_spacing * cluster_spacing

C2_Witness ==
    /\ cluster_spacing >= 2
    /\ \E s, t \in NodeSlots : s[1] = t[1] /\ s[2] # t[2]
    /\ \E s, t \in NodeSlots : clusters[s[1]].poi_type # clusters[t[1]].poi_type

\* C3 (as stated): the center of a cluster that ended with zero nodes stays in the
\* spacing pool: no center accepted later in the run is closer than
\* inter_cluster_spacing to it.
C3_EmptyCenterKept ==
    \A i, j \in 1..Len(center_log) :
        (i < j /\ center_log[i].nodes = 0)
            => DistSq(center_log[i].center, center_log[j].center)
                   >= inter_cluster_spacing * inter_cluster_spacing

KeptLog == SelectSeq(center_log, LAMBDA e : e.nodes > 0)

\* C3 (amended): a cluster that ended with zero nodes is left out of self.clusters and
\* its center is not kept in the spacing pool: the centers of self.clusters are exactly
\* the accepted centers whose cluster got a node, in order of acceptance, and a center
\* accepted later is at distance >= inter_cluster_spacing of those only.
C3_EmptyCenterDropped ==
    /\ Len(clusters) = Len(KeptLog)
    /\ \A k \in 1..Len(clusters) :
          Center(k) = KeptLog[k].center /\ Len(clusters[k].nodes) = KeptLog[k].nodes
    /\ \A i, j \in 1..Len(center_log) :
          (i < j /\ center_log[i].nodes > 0)
              => DistSq(center_log[i].center, center_log[j].center)
                     >= inter_cluster_spacing * inter_cluster_spacing

\* a cluster found no free position around its center, although nodes were requested,
\* and a later center was accepted closer than inter_cluster_spacing to that center
C3_Witness ==
    /\ args.nodes_per_cluster # Some(0)
    /\ inter_cluster_spacing >= 2
    /\ \E i, j \in 1..Len(center_log) :
          /\ i < j
          /\ center_log[i].nodes = 0
          /\ DistSq(center_log[i].center, center_log[j].center)
                 < inter_cluster_spacing * inter_cluster_spacing

\* a cell of the grid on which the robot fits: walkable, farther than radius_pixels
\* from every obstacle cell, and outside the edge-margin band
Fits(c) ==
    /\ c \in Cells
    /\ static_map[c]
    /\ \A o \in Cells : ~static_map[o] => DistSq(o, c) > radius_pixels * radius_pixels
    /\ edge_margin <= c[1] /\ c[1] < Width - edge_margin
    /\ edge_margin <= c[2] /\ c[2] < Height - edge_margin

\* C5: every cluster center and every node of the output lies on an accessible cell:
\* in bounds, not within radius_pixels of an obstacle cell, not in the margin band.
C5_OnAccessibleCells ==
    \A k \in 1..Len(clusters) :
        /\ Fits(Center(k))
        /\ \A n \in 1..Len(clusters[k].nodes) : Fits(clusters[k].nodes[n])

C5_Witness ==
    /\ radius_pixels >= 1
    /\ edge_margin >= 1
    /\ \E o \in Cells : ~static_map[o]
    /\ \E k \in 1..Len(clusters) : Len(clusters[k].nodes) >= 1

\* C6: a call generate_X_clusters(num_clusters, nodes_per_cluster) adds at most
\* num_clusters clusters, each with at least 1 and at most nodes_per_cluster nodes.
C6_CallLimits ==
    /\ Len(clusters) - last_call.before
          <= (IF last_call.num_clusters > 0 THEN last_call.num_clusters ELSE 0)
    /\ \A k \in (last_call.before + 1)..Len(clusters) :
          /\ clusters[k].poi_type = last_call.poi_type
          /\ 1 <= Len(clusters[k].nodes)
          /\ Len(clusters[k].nodes) <= last_call.nodes_per_cluster

C6_Witness ==
    /\ last_call.num_clusters >= 2
    /\ Len(clusters) - last_call.before = last_call.num_clusters
    /\ last_call.nodes_per_cluster = 2
    /\ cluster_spacing = 1
    /\ inter_cluster_spacing >= 2
    /\ \A k \in (last_call.before + 1)..Len(clusters) : Len(clusters[k].nodes) = 2

OfType(t) == {k \in 1..Len(clusters) : clusters[k].poi_type = t}

\* C7: never more than 3 charging clusters nor more than 2 nodes in a charging
\* cluster, never more than 4 pickup (dropoff) clusters nor more than 4 nodes in one,
\* whatever counts are passed.
C7_ConfigMaxima ==
    /\ Cardinality(OfType("CHARGING")) <= max_charging_clusters
    /\ \A k \in OfType("CHARGING") : Len(clusters[k].nodes) <= max_charging_per_cluster
    /\ Cardinality(OfType("PICKUP")) <= max_pickup_clusters
    /\ \A k \in OfType("PICKUP") : Len(clusters[k].nodes) <= max_pickup_per_cluster
    /\ Cardinality(OfType("DROPOFF")) <= max_dropoff_clusters
    /\ \A k \in OfType("DROPOFF") : Len(clusters[k].nodes) <= max_dropoff_per_cluster

\* ------------------------------------------------------------------------
\* Properties of warehouse_setup (SpecWS)
\* ------------------------------------------------------------------------
\* every cluster center chosen in this run, in order: [call, center, min_cluster_dist]
RECURSIVE centers_of_calls(_)
centers_of_calls(n) ==
    IF n = 0 THEN <<>>
    ELSE centers_of_calls(n - 1) \o
         [k \in 1..Len(ws_calls[n].cluster_centers) |->
             [call |-> n,
              center |-> ws_calls[n].cluster_centers[k],
              min_cluster_dist |-> ws_calls[n].min_cluster_dist]]

RunCenters == centers_of_calls(Len(ws_calls))

\* C4 (as stated): every cluster center chosen for a category is at least that call's
\* min_cluster_dist away from every center chosen earlier in the run, the centers of
\* the categories processed before it included.
C4_CentersSharedAcrossCalls ==
    \A i, j \in 1..Len(RunCenters) :
        i < j => DistSq(RunCenters[i].center, RunCenters[j].center)
                     >= RunCenters[j].min_cluster_dist * RunCenters[j].min_cluster_dist

\* C4 (amended): the cluster-center list is local to each generate_clustered_pois call:
\* a center is at least the call's min_cluster_dist away from the centers chosen
\* earlier in the same call; only the used POI positions are shared by the three calls
\* (no position is returned twice in a run).
C4_CentersSpacedWithinCall ==
    /\ \A i, j \in 1..Len(RunCenters) :
          (i < j /\ RunCenters[i].call = RunCenters[j].call)
              => DistSq(RunCenters[i].center, RunCenters[j].center)
                     >= RunCenters[j].min_cluster_dist * RunCenters[j].min_cluster_dist
    /\ \A a, b \in 1..Len(ws_pois) :
          a # b => <<ws_pois[a].x, ws_pois[a].y>> # <<ws_pois[b].x, ws_pois[b].y>>

C4_Witness ==
    /\ \E i, j \in 1..Len(RunCenters) :
          i < j /\ RunCenters[i].call = RunCenters[j].call
    /\ \E i, j \in 1..Len(RunCenters) :
          /\ RunCenters[i].call < RunCenters[j].call
          /\ DistSq(RunCenters[i].center, RunCenters[j].center)
                 < RunCenters[j].min_cluster_dist * RunCenters[j].min_cluster_dist
    /\ \E a, b \in 1..Len(ws_pois) : ws_pois[a].type # ws_pois[b].type

\* C8: two runs with the same accessible grid, the same parameters and the same
\* integer seed (0 included) produce identical POI lists.
C8_SameSeedSameOutput ==
    (ws_run = 2 /\ ws_pc = "done" /\ ws_input.seed # None) => ws_pois = ws_prev_pois

\* C9: placement for a category never raises, whatever the accessible cells and the
\* requested counts are.
C9_NeverRaises == ws_pc # "raised"

\* the call requested more clusters or more POIs than it placed
UnderFulfilled(c, returned) ==
    Len(c.cluster_centers) < c.num_clusters \/ Len(returned) < c.num_pois

\* C10 (as stated): when fewer clusters or nodes than requested are placed, the value
\* returned to the caller carries the requested count next to the achieved count.
C10_ResultReportsRequested ==
    (ws_calls # <<>> /\ UnderFulfilled(ws_calls[Len(ws_calls)], ws_ret.pois))
        => /\ {"requested", "achieved"} \subseteq DOMAIN ws_ret
           /\ ws_ret.requested # ws_ret.achieved

\* C10 (amended): generate_clustered_pois returns the list of the POIs it placed and
\* nothing else; a shortfall of clusters is reported by a printed warning (printed
\* exactly when fewer centers than requested were found) and not in the returned value.
C10_ShortfallOnlyWarned ==
    /\ DOMAIN ws_ret = {"pois"}
    /\ \A n \in 1..Len(ws_calls) :
          ws_calls[n].warned <=> Len(ws_calls[n].cluster_centers) < ws_calls[n].num_clusters
    /\ ws_calls # <<>> =>
          \A k \in 1..Len(ws_ret.pois) :
              ws_ret.pois[k].type = ws_calls[Len(ws_calls)].poi_type

C10_Witness ==
    /\ ws_calls # <<>>
    /\ ws_calls[Len(ws_calls)].warned
    /\ ws_ret.pois # <<>>
    /\ \E n \in 1..Len(ws_calls) :
          ~ws_calls[n].warned /\ ws_calls[n].num_clusters >= 2

\* ------------------------------------------------------------------------
\* Properties of MapAccessibility (SpecPG)
\* ------------------------------------------------------------------------
\* C11: after the inflation a cell (x, y) is accessible if and only if it is at least
\* edge_margin cells away from every boundary of the grid and no obstacle cell (ox, oy)
\* of the static map has (x - ox)^2 + (y - oy)^2 <= radius_pixels^2
C11_InflationCharacterized ==
    \A c \in Cells :
        inflated_map[c] <=>
            /\ edge_margin <= c[1] /\ c[1] < Width - edge_margin
            /\ edge_margin <= c[2] /\ c[2] < Height - edge_margin
            /\ \A o \in Cells :
                  ~static_map[o] => DistSq(c, o) > radius_pixels * radius_pixels

\* a robot of radius >= 1: a walkable cell away from the edge margin is closed by an
\* obstacle next to it, another cell stays accessible
C11_Witness ==
    /\ pc = "charging"
    /\ radius_pixels >= 1
    /\ \E o, c, c2 \in Cells :
          /\ ~static_map[o]
          /\ static_map[c] /\ ~InMargin(c, edge_margin) /\ ~inflated_map[c]
          /\ inflated_map[c2]

\* ------------------------------------------------------------------------
\* Properties of the map pipeline (SpecMap)
\* ------------------------------------------------------------------------
\* the two grids share no row list
SeparateGrids(rows1, rows2) ==
    \A i \in 1..Len(rows1), j \in 1..Len(rows2) : rows1[i] # rows2[j]

\* C12: the inflation leaves the grid it reads as it was, in every cell; its result is
\* a separate grid; and inflating an equal grid again, with the same radius and margin,
\* gives an equal result.  For _inflate_map (MapAccessibility) and for inflate_map
\* (warehouse_setup).
C12_InflationLeavesInput ==
    /\ ma # None =>
          /\ grid_value(heap, Val(ma).static_map) = inflate_in.ma
          /\ SeparateGrids(Val(ma).static_map, Val(ma).inflated_map)
          /\ grid_value(heap, Val(ma).inflated_map)
                = inflate_value(inflate_in.ma, Val(ma).width, Val(ma).height,
                                ma_config.radius_pixels, ma_config.edge_margin)
    /\ (tool = "warehouse_setup" /\ map_pc = "written") =>
          /\ grid_value(heap, binary_map) = inflate_in.ws
          /\ SeparateGrids(binary_map, ws_inflated_map)
          /\ grid_value(heap, ws_inflated_map)
                = LET a == alloc_rows(<<>>, inflate_in.ws)
                      again == inflate_map_ws(a.heap, a.rows, ma_config.radius_pixels)
                  IN grid_value(again.heap, again.rows)

\* both inflations have run and each has closed a cell that was walkable
C12_Witness ==
    /\ tool = "warehouse_setup"
    /\ map_pc = "written"
    /\ ma # None
    /\ grid_value(heap, ws_inflated_map) # grid_value(heap, binary_map)
    /\ grid_value(heap, Val(ma).inflated_map) # grid_value(heap, Val(ma).static_map)

\* C13 (Scenario A): on the 10 x 10 all-walkable grid at one cell per metre, marking
\* the circular obstacle of radius 1 cell centered at (5, 5) and then inflating with a
\* robot radius of 1 cell and margin 0 makes inaccessible exactly the cells (x, y) with
\* (x - 5)^2 + (y - 5)^2 <= 4
C13_ScenarioA ==
    (/\ layout = ScenarioA.layout
     /\ resolution_m_per_px = ScenarioA.resolution_m_per_px
     /\ map_pc # "start") =>
        LET inflated == inflate_value(grid, grid_width, grid_height,
                                      ScenarioA.ma_config.radius_pixels,
                                      ScenarioA.ma_config.edge_margin)
        IN /\ grid_width = 10
           /\ grid_height = 10
           /\ \A x \in 0..9, y \in 0..9 :
                 ~inflated[y + 1][x + 1] <=> (x - 5) * (x - 5) + (y - 5) * (y - 5) <= 4

\* the processed shapes that are circular prohibited zones
CircleEntries ==
    {k \in 1..Len(mark_log) :
        mark_log[k].item.kind = "zone" /\ mark_log[k].item.shape.shape = "circle"}

\* C14: a circle marks exactly the cells of the grid whose distance to its center is
\* at most its radius, both in cell units, the boundary included
C14_CircleCells ==
    \A k \in CircleEntries :
        LET e == mark_log[k]
            center == e.item.shape.center
            radius == e.item.shape.dimensions[1]
            res == resolution_m_per_px
        IN \A x \in 0..(grid_width - 1), y \in 0..(grid_height - 1) :
              e.after[y + 1][x + 1] =
                  (/\ e.before[y + 1][x + 1]
                   /\ (x * res - center[1]) * (x * res - center[1])
                        + (y * res - center[2]) * (y * res - center[2]) > radius * radius)

\* the rectangle a processed shape stands for: center and dimensions of its footprint
Footprint(item) ==
    IF item.kind = "object"
    THEN [cx |-> item.shape.center[1], cy |-> item.shape.center[3],
          w |-> item.shape.dimensions[1], h |-> item.shape.dimensions[3]]
    ELSE [cx |-> item.shape.center[1], cy |-> item.shape.center[2],
          w |-> item.shape.dimensions[1], h |-> item.shape.dimensions[2]]

\* rotation within 0.01 degrees of 0 or of 180
NearlyUnrotated(rot) == (-10 < rot /\ rot < 10) \/ (179990 < rot /\ rot < 180010)

\* the processed shapes that are rectangles marked without rotation: the objects that
\* are not charging stations and the rectangular zones
RectangleEntries ==
    {k \in 1..Len(mark_log) :
        LET it == mark_log[k].item
        IN /\ NearlyUnrotated(it.shape.rotation)
           /\ \/ it.kind = "object" /\ it.shape.model_index # 5
              \/ it.kind = "zone" /\ it.shape.shape = "rectangle"
                                 /\ Len(it.shape.dimensions) >= 2}

\* n = floor(a / b) and n = ceil(a / b), for b > 0
IsFloor(n, a, b) == n * b <= a /\ a < (n + 1) * b

IsCeil(n, a, b) == (n - 1) * b < a /\ a <= n * b

Clamp(v, hi) == IF v < 0 THEN 0 ELSE IF v > hi THEN hi ELSE v

\* the cell indices a bound can take before it is clamped
BoundRange == (-(4 * MaxFloor + MaxDim))..(2 * (4 * MaxFloor + MaxDim))

\* C15: an axis-aligned rectangle, also one turned by less than 0.01 degrees away from
\* 0 or 180, marks exactly the cells of [x1, x2] x [y1, y2], x1 = floor((cx - w/2) / res),
\* x2 = ceil((cx + w/2) / res), y1 and y2 likewise, each clamped to the grid; every
\* other cell is left as it was
C15_RectangleCells ==
    \A k \in RectangleEntries :
        LET f == Footprint(mark_log[k].item)
            res == resolution_m_per_px
        IN \E x1 \in BoundRange : IsFloor(x1, 2 * f.cx - f.w, 2 * res) /\
           \E x2 \in BoundRange : IsCeil(x2, 2 * f.cx + f.w, 2 * res) /\
           \E y1 \in BoundRange : IsFloor(y1, 2 * f.cy - f.h, 2 * res) /\
           \E y2 \in BoundRange : IsCeil(y2, 2 * f.cy + f.h, 2 * res) /\
           \A x \in 0..(grid_width - 1), y \in 0..(grid_height - 1) :
               mark_log[k].after[y + 1][x + 1] =
                   (/\ mark_log[k].before[y + 1][x + 1]
                    /\ ~(/\ Clamp(x1, grid_width - 1) <= x /\ x <= Clamp(x2, grid_width - 1)
                         /\ Clamp(y1, grid_height - 1) <= y /\ y <= Clamp(y2, grid_height - 1)))

\* a rectangle turned by nearly 180 degrees and a rectangle reaching over the edge of
\* the floor have been marked; walkable cells became obstacles, others stayed walkable
C15_Witness ==
    /\ map_pc = "generated"
    /\ \E k \in RectangleEntries : mark_log[k].item.shape.rotation \notin {0, 180000}
    /\ \E k \in RectangleEntries :
          2 * Footprint(mark_log[k].item).cx + Footprint(mark_log[k].item).w
              > 2 * resolution_m_per_px * grid_width
    /\ \A k \in RectangleEntries : mark_log[k].after # mark_log[k].before
    /\ \E x \in 1..grid_width, y \in 1..grid_height : grid[y][x]

\* the grid generate_grid returns when the shapes of the layout are processed in
\* the order p
GridInOrder(p) ==
    LET items == layout_items(layout)
    IN mark_items([grid |-> new_grid(grid_width, grid_height), log |-> <<>>], grid_width,
                  grid_height, resolution_m_per_px, [k \in 1..Len(items) |-> items[p[k]]],
                  1).grid

\* C16: no marking operation turns an obstacle cell back into a walkable one, and the
\* grid generate_grid returns is the same for every order of the objects and zones
C16_ObstaclesAccumulate ==
    /\ \A k \in 1..Len(mark_log) :
          \A x \in 1..grid_width, y \in 1..grid_height :
              mark_log[k].after[y][x] => mark_log[k].before[y][x]
    /\ (tool = "prohibited_zone_generator" /\ map_pc = "generated")
          => \A p \in Permutations(1..Len(layout_items(layout))) : GridInOrder(p) = grid

\* two shapes were processed, each marked cells, the second covers a cell the first
\* had marked already, and the other order passes through another intermediate grid
C16_Witness ==
    /\ map_pc = "generated"
    /\ Len(mark_log) = 2
    /\ \A k \in 1..2 : mark_log[k].after # mark_log[k].before
    /\ LET alone == mark_item(new_grid(grid_width, grid_height), grid_width, grid_height,
                              resolution_m_per_px, mark_log[2].item)
       IN /\ alone # mark_log[1].after
          /\ \E x \in 1..grid_width, y \in 1..grid_height :
                ~alone[y][x] /\ ~mark_log[1].after[y][x]
          /\ \E x \in 1..grid_width, y \in 1..grid_height :
                ~alone[y][x] /\ mark_log[1].after[y][x]

ObjectEntries == {k \in 1..Len(mark_log) : mark_log[k].item.kind = "object"}

\* the grid g after the footprint of the object is marked as an unrotated rectangle
ThroughRectangle(g, obj) ==
    mark_rectangle_obstacle(g, grid_width, grid_height, resolution_m_per_px, obj.center[1],
                            obj.center[3], obj.dimensions[1], obj.dimensions[3])

\* the grid g after the footprint of the object is marked as a rotated rectangle
ThroughRotatedRectangle(g, obj) ==
    mark_rotated_rectangle_obstacle(g, grid_width, grid_height, resolution_m_per_px,
                                    obj.center[1], obj.center[3], obj.dimensions[1],
                                    obj.dimensions[3], obj.rotation)

\* C17: processing an object with modelIndex 5 leaves every cell of the grid unchanged,
\* whatever its center, dimensions and rotation; an object with another modelIndex is
\* marked through the rectangle or the rotated-rectangle path
C17_ChargingStationsUnmarked ==
    \A k \in ObjectEntries :
        LET e == mark_log[k]
        IN IF e.item.shape.model_index = 5
           THEN \A x \in 1..grid_width, y \in 1..grid_height :
                    e.after[y][x] = e.before[y][x]
           ELSE e.after \in {ThroughRectangle(e.before, e.item.shape),
                             ThroughRotatedRectangle(e.before, e.item.shape)}

\* a charging station standing on walkable cells was processed: either marking path
\* would have closed cells
C17_Witness ==
    /\ map_pc = "generated"
    /\ \E k \in ObjectEntries :
          LET e == mark_log[k]
          IN /\ e.item.shape.model_index = 5
             /\ ThroughRectangle(e.before, e.item.shape) # e.before
             /\ ThroughRotatedRectangle(e.before, e.item.shape) # e.before
             /\ e.after = e.before
             /\ \E x \in 1..grid_width, y \in 1..grid_height : e.after[y][x]

\* the grid a writer was given: the rasterized grid, the binary map, or the image
\* against the threshold
WrittenGrid ==
    IF tool = "prohibited_zone_generator" THEN grid
    ELSE IF tool = "warehouse_setup" THEN grid_value(heap, binary_map)
    ELSE [y \in 1..image_height(image) |->
             [x \in 1..image_width(image) |-> image[y][x] >= 128]]

WrittenWidth == IF tool = "prohibited_zone_generator" THEN grid_width ELSE image_width(image)

\* C18: every map file written by export_to_bitmap_file, save_map_layout or
\* convert_png_to_grid has the line "{width} {height}" first and then exactly height
\* lines of exactly width characters, '.' for a walkable and '#' for an obstacle cell,
\* in order of increasing y
C18_MapFileFormat ==
    map_file # None =>
        LET lines == Val(map_file)
            g == WrittenGrid
        IN /\ Len(lines) = Len(g) + 1
           /\ lines[1] = header_line(WrittenWidth, Len(g))
           /\ \A y \in 1..Len(g) :
                 lines[y + 1] = [x \in 1..WrittenWidth |-> IF g[y][x] THEN "." ELSE "#"]
                                \o <<"\n">>

\* C19: reading back the file written by export_to_bitmap_file gives a grid equal to
\* the exported one, in width, height and every cell, with load_map and with
\* MapAccessibility._load_map
C19_RoundTrip ==
    (tool = "prohibited_zone_generator" /\ map_pc = "written") =>
        /\ vw # None =>
              /\ ~Val(vw).raised
              /\ Val(vw).width = grid_width /\ Val(vw).height = grid_height
              /\ Val(vw).grid = grid
        /\ ma # None =>
              /\ Val(ma).width = grid_width /\ Val(ma).height = grid_height
              /\ grid_value(heap, Val(ma).static_map) = grid

\* the place of a category in the order CHARGING, PICKUP, DROPOFF
Rank(t) == IF t = "CHARGING" THEN 1 ELSE IF t = "PICKUP" THEN 2 ELSE IF t = "DROPOFF" THEN 3 ELSE 0

\* the categories of a sequence never step back in the order
InCategoryOrder(types) == \A i, j \in 1..Len(types) : i < j => Rank(types[i]) <= Rank(types[j])

TypesOf(pois) == [k \in 1..Len(pois) |-> pois[k].type]

\* C20: a generation run processes CHARGING, then PICKUP, then DROPOFF, and in the
\* emitted POI list every CHARGING POI precedes every PICKUP POI and every PICKUP POI
\* precedes every DROPOFF POI
C20_CategoryOrder ==
    /\ last_call.poi_type =
          (IF pc = "pickup" THEN "CHARGING" ELSE IF pc = "dropoff" THEN "PICKUP"
           ELSE IF pc \in {"done", "saved"} THEN "DROPOFF" ELSE "NONE")
    /\ InCategoryOrder([k \in 1..Len(center_log) |-> center_log[k].poi_type])
    /\ InCategoryOrder([k \in 1..Len(clusters) |-> clusters[k].poi_type])
    /\ InCategoryOrder(TypesOf(poi_config))
    /\ \A k \in 1..Len(ws_calls) : Rank(ws_calls[k].poi_type) = k
    /\ InCategoryOrder(TypesOf(ws_pois))

\* a run of poi_generator emitted POIs of the three categories, two of them in more
\* than one cluster
C20_Witness ==
    /\ pc = "saved"
    /\ \A t \in {"CHARGING", "PICKUP", "DROPOFF"} : \E k \in 1..Len(poi_config) : poi_config[k].type = t
    /\ Len(clusters) >= 4
    /\ Len(poi_config) > Len(clusters)

\* the text id is the prefix followed by the decimal numeral of n
IdIs(id, prefix, n) ==
    /\ Len(id) > Len(prefix)
    /\ SubSeq(id, 1, Len(prefix)) = prefix
    /\ LET numeral == SubSeq(id, Len(prefix) + 1, Len(id))
       IN /\ is_digits(numeral)
          /\ Len(numeral) > 1 => numeral[1] # "0"
          /\ int_of(numeral) = n

\* the number of POIs of the category of pois[i] that precede it in the list
IndexInCategory(pois, i) == Cardinality({j \in 1..(i - 1) : pois[j].type = pois[i].type})

DistinctIds(pois) == \A i, j \in 1..Len(pois) : i # j => pois[i].id # pois[j].id

\* C21: in every produced POI list the ids are pairwise distinct and the k-th POI of a
\* category carries the k-th id of the category: C0, C1, ... for charging, P0, P2, ...
\* for pickup and P1, P3, ... for dropoff in poi_generator; C0, C1, ..., PU0, PU1, ...
\* and DO0, DO1, ... in warehouse_setup
C21_IdsSequential ==
    /\ DistinctIds(poi_config)
    /\ \A i \in 1..Len(poi_config) :
          LET k == IndexInCategory(poi_config, i)
              t == poi_config[i].type
          IN /\ t = "CHARGING" => IdIs(poi_config[i].id, <<"C">>, k)
             /\ t = "PICKUP" => IdIs(poi_config[i].id, <<"P">>, 2 * k)
             /\ t = "DROPOFF" => IdIs(poi_config[i].id, <<"P">>, 2 * k + 1)
    /\ DistinctIds(ws_pois)
    /\ \A i \in 1..Len(ws_pois) :
          LET k == IndexInCategory(ws_pois, i)
              t == ws_pois[i].type
          IN /\ t = "CHARGING" => IdIs(ws_pois[i].id, <<"C">>, k)
             /\ t = "PICKUP" => IdIs(ws_pois[i].id, <<"P", "U">>, k)
             /\ t = "DROPOFF" => IdIs(ws_pois[i].id, <<"D", "O">>, k)

\* poi_generator emitted at least two POIs of each category, the pickup and dropoff
\* POIs sharing the prefix P
C21_Witness ==
    /\ pc = "saved"
    /\ \A t \in {"CHARGING", "PICKUP", "DROPOFF"} :
          Cardinality({i \in 1..Len(poi_config) : poi_config[i].type = t}) >= 2

CentersOf(cls) == [k \in 1..Len(cls) |-> <<cls[k].center_x, cls[k].center_y>>]

\* the centers are pairwise at distance >= d
SpacedBy(centers, d) ==
    \A i, j \in 1..Len(centers) : i # j => DistSq(centers[i], centers[j]) >= d * d

\* C22: in Scenario B the request for 3 charging clusters yields exactly 3 cluster
\* centers in the output, pairwise at distance >= 10, and the run repeated with the
\* same seed yields the same 3 centers
C22_ScenarioB ==
    pc = "pickup" =>
        /\ Len(clusters) = ScenarioB.num_clusters
        /\ SpacedBy(CentersOf(clusters), ScenarioB.inter_cluster_spacing)
        /\ pg_run = 2 => CentersOf(clusters) = CentersOf(pg_prev_clusters)

\* Scenario B, what every run satisfies: exactly 3 cluster centers are accepted; the
\* output holds the centers whose cluster got a node, pairwise at distance >= 10: all 3
\* when cluster_spacing is at most half of inter_cluster_spacing; the run repeated with
\* the same seed yields the same clusters
ScenarioB_KeptCenters ==
    pc = "pickup" =>
        /\ Len(center_log) = ScenarioB.num_clusters
        /\ CentersOf(clusters) = [k \in 1..Len(KeptLog) |-> KeptLog[k].center]
        /\ 2 * cluster_spacing <= inter_cluster_spacing
              => Len(clusters) = ScenarioB.num_clusters
        /\ SpacedBy(CentersOf(clusters), ScenarioB.inter_cluster_spacing)
        /\ pg_run = 2 => clusters = pg_prev_clusters

\* ------------------------------------------------------------------------
\* warehouse_layout_loader.py.  A JSON value is a number (a length in quarter metres,
\* an angle in thousandths of a degree, a plain integer), a string that holds no
\* numeral, null, or a list; a dictionary is a record whose absent keys hold Missing.
\* ------------------------------------------------------------------------
Missing == <<"missing">>

Null == <<"null">>

Num(n) == <<"number", n>>

Str(s) == <<"string", s>>

List(xs) == <<"list", xs>>

\* what a call gives: its return value, or the exception it raised
Ok(v) == [exc |-> "none", msg |-> "", value |-> v]

Raise(e, m) == [exc |-> e, msg |-> m, value |-> <<>>]

\* dict.get(key, default)
get(d, key, default) == IF d[key] = Missing THEN default ELSE d[key]

\* float(v): a number converts, a string without a numeral is a ValueError, None and
\* a list are a TypeError
to_float(v) ==
    IF v[1] = "number" THEN Ok(v[2])
    ELSE IF v[1] = "string" THEN Raise("ValueError", "could not convert string to float")
    ELSE Raise("TypeError", "float() argument must be a string or a real number")

LowerCase ==
    <<"a", "b", "c", "d", "e", "f", "g", "h", "i", "j", "k", "l", "m",
      "n", "o", "p", "q", "r", "s", "t", "u", "v", "w", "x", "y", "z">>

UpperCase ==
    <<"A", "B", "C", "D", "E", "F", "G", "H", "I", "J", "K", "L", "M",
      "N", "O", "P", "Q", "R", "S", "T", "U", "V", "W", "X", "Y", "Z">>

\* str(v) of a string and of None
str_of(v) == IF v[1] = "string" THEN v[2] ELSE <<"N", "o", "n", "e">>

\* str.upper()
upper(text) ==
    [k \in 1..Len(text) |->
        IF \E a \in 1..26 : LowerCase[a] = text[k]
        THEN UpperCase[CHOOSE a \in 1..26 : LowerCase[a] = text[k]]
        ELSE text[k]]

\* _parse_floor_size
parse_floor_size(floor_size_data) ==
    IF floor_size_data[1] # "list" \/ Len(floor_size_data[2]) # 2
    THEN Raise("ValueError", "Invalid floorSize: floorSize must be [width, height]")
    ELSE IF floor_size_data[2][1] <= 0 \/ floor_size_data[2][2] <= 0
    THEN Raise("ValueError", "Invalid floorSize: Floor dimensions must be positive")
    ELSE Ok(floor_size_data[2])

\* _parse_single_object
parse_single_object(obj_data, index) ==
    IF obj_data.modelIndex = Missing THEN Raise("ValueError", "Missing 'modelIndex'")
    ELSE IF obj_data.modelIndex[1] # "number"
    THEN Raise("ValueError", "Invalid 'modelIndex': must be integer")
    ELSE IF obj_data.center = Missing THEN Raise("ValueError", "Missing 'center'")
    ELSE IF obj_data.center[1] # "list" \/ Len(obj_data.center[2]) # 3
    THEN Raise("ValueError", "'center' must be [x, y, z]")
    ELSE IF obj_data.dimensions = Missing THEN Raise("ValueError", "Missing 'dimensions'")
    ELSE IF obj_data.dimensions[1] # "list" \/ Len(obj_data.dimensions[2]) # 3
    THEN Raise("ValueError", "'dimensions' must be [width, height, depth]")
    ELSE IF \E k \in 1..3 : obj_data.dimensions[2][k] <= 0
    THEN Raise("ValueError", "'dimensions' error: All dimensions must be positive")
    ELSE LET rotation == to_float(get(obj_data, "rotation", Num(0)))
         IN IF rotation.exc # "none" THEN rotation
            ELSE Ok([model_index |-> obj_data.modelIndex[2],
                     center |-> obj_data.center[2],
                     dimensions |-> obj_data.dimensions[2],
                     rotation |-> rotation.value])

\* the loop of _parse_objects: st is [exc, msg, value, errors, warnings], value the
\* objects parsed so far; only a ValueError is caught
RECURSIVE parse_objects_loop(_, _, _)
parse_objects_loop(entries, i, st) ==
    IF i > Len(entries) THEN st
    ELSE LET r == parse_single_object(entries[i], i - 1)
         IN IF r.exc = "none"
            THEN parse_objects_loop(entries, i + 1, [st EXCEPT !.value = Append(@, r.value)])
            ELSE IF r.exc = "ValueError"
            THEN parse_objects_loop(entries, i + 1,
                     [st EXCEPT !.errors = Append(@, [text |-> "Error parsing object",
                                                     index |-> i - 1, e |-> r.msg, value |-> 0])])
            ELSE [st EXCEPT !.exc = r.exc, !.msg = r.msg]

\* _parse_objects
parse_objects(objects_data, st) ==
    IF objects_data[1] # "list"
    THEN [st EXCEPT !.exc = "ValueError", !.msg = "'objects' must be an array"]
    ELSE LET r == parse_objects_loop(objects_data[2], 1, [st EXCEPT !.value = <<>>])
         IN IF r.exc = "none" /\ r.value = <<>>
            THEN [r EXCEPT !.exc = "ValueError", !.msg = "No valid objects found in layout"]
            ELSE r

\* f"zone_{index}"
zone_id_default(index) == <<"z", "o", "n", "e", "_">> \o str_int(index)

\* _parse_single_zone: the id, the type, the description and the metadata are left
\* at their defaults; str() of a string is the string
parse_single_zone(zone_data, index) ==
    IF zone_data.center = Missing THEN Raise("ValueError", "Missing 'center'")
    ELSE IF zone_data.center[1] # "list" \/ Len(zone_data.center[2]) # 2
    THEN Raise("ValueError", "'center' must be [x, y] (2D)")
    ELSE IF zone_data.dimensions = Missing THEN Raise("ValueError", "Missing 'dimensions'")
    ELSE IF zone_data.dimensions[1] # "list"
    THEN Raise("ValueError", "'dimensions' error: object is not iterable")
    ELSE IF \E k \in 1..Len(zone_data.dimensions[2]) : zone_data.dimensions[2][k] <= 0
    THEN Raise("ValueError", "'dimensions' error: All dimensions must be positive")
    ELSE LET rotation == to_float(get(zone_data, "rotation", Num(0)))
         IN IF rotation.exc # "none" THEN rotation
            ELSE Ok([zone_id |-> zone_id_default(index),
                     shape |-> get(zone_data, "shape", Str("rectangle"))[2],
                     center |-> zone_data.center[2],
                     dimensions |-> zone_data.dimensions[2],
                     rotation |-> rotation.value])

\* the loop of _parse_prohibited_zones
RECURSIVE parse_prohibited_zones_loop(_, _, _)
parse_prohibited_zones_loop(entries, i, st) ==
    IF i > Len(entries) THEN st
    ELSE LET r == parse_single_zone(entries[i], i - 1)
         IN IF r.exc = "none"
            THEN parse_prohibited_zones_loop(entries, i + 1,
                                             [st EXCEPT !.value = Append(@, r.value)])
            ELSE IF r.exc = "ValueError"
            THEN parse_prohibited_zones_loop(entries, i + 1,
                     [st EXCEPT !.warnings = Append(@, [text |-> "Warning parsing prohibited zone",
                                                       index |-> i - 1, e |-> r.msg, value |-> 0])])
            ELSE [st EXCEPT !.exc = r.exc, !.msg = r.msg]

\* _parse_prohibited_zones
parse_prohibited_zones(zones_data, st) ==
    IF zones_data[1] # "list"
    THEN [st EXCEPT !.value = <<>>,
                    !.warnings = Append(@, [text |-> "'prohibitedZones' must be an array, skipping",
                                            index |-> 0, e |-> "", value |-> 0])]
    ELSE parse_prohibited_zones_loop(zones_data[2], 1, [st EXCEPT !.value = <<>>])

PICKUP == <<"P", "I", "C", "K", "U", "P">>

DROPOFF == <<"D", "R", "O", "P", "O", "F", "F">>

\* "poiSpacing" when the entry has none: 2.0 metres
poi_spacing_default == 8

\* _parse_single_picking_zone: the description is left at its default
parse_single_picking_zone(zone_data, index) ==
    LET poi_type == upper(str_of(get(zone_data, "type", Str(PICKUP))))
    IN IF poi_type \notin {PICKUP, DROPOFF}
       THEN Raise("ValueError", "'type' must be 'PICKUP' or 'DROPOFF'")
       ELSE IF zone_data.center = Missing THEN Raise("ValueError", "Missing 'center'")
       ELSE IF zone_data.center[1] # "list" \/ Len(zone_data.center[2]) # 3
       THEN Raise("ValueError", "'center' must be [x, y, z] (3D)")
       ELSE IF zone_data.dimensions = Missing THEN Raise("ValueError", "Missing 'dimensions'")
       ELSE IF zone_data.dimensions[1] # "list" \/ Len(zone_data.dimensions[2]) # 3
       THEN Raise("ValueError", "'dimensions' must be [width, height, depth] (3D)")
       ELSE IF zone_data.dimensions[2][1] <= 0 \/ zone_data.dimensions[2][3] <= 0
       THEN Raise("ValueError", "'dimensions' error: Width and depth dimensions must be positive")
       ELSE LET rotation == to_float(get(zone_data, "rotation", Num(0)))
                poi_spacing == to_float(get(zone_data, "poiSpacing", Num(poi_spacing_default)))
            IN IF rotation.exc # "none" THEN rotation
               ELSE IF poi_spacing.exc # "none" THEN poi_spacing
               ELSE IF poi_spacing.value <= 0
               THEN Raise("ValueError", "'poiSpacing' must be positive")
               ELSE Ok([poi_type |-> poi_type,
                        center |-> zone_data.center[2],
                        dimensions |-> zone_data.dimensions[2],
                        rotation |-> rotation.value,
                        poi_spacing |-> poi_spacing.value])

\* the loop of _parse_picking_zones
RECURSIVE parse_picking_zones_loop(_, _, _)
parse_picking_zones_loop(entries, i, st) ==
    IF i > Len(entries) THEN st
    ELSE LET r == parse_single_picking_zone(entries[i], i - 1)
         IN IF r.exc = "none"
            THEN parse_picking_zones_loop(entries, i + 1,
                                          [st EXCEPT !.value = Append(@, r.value)])
            ELSE IF r.exc = "ValueError"
            THEN parse_picking_zones_loop(entries, i + 1,
                     [st EXCEPT !.warnings = Append(@, [text |-> "Warning parsing picking zone",
                                                       index |-> i - 1, e |-> r.msg, value |-> 0])])
            ELSE [st EXCEPT !.exc = r.exc, !.msg = r.msg]

\* _parse_picking_zones
parse_picking_zones(zones_data, st) ==
    IF zones_data[1] # "list"
    THEN [st EXCEPT !.value = <<>>,
                    !.warnings = Append(@, [text |-> "'pickingZones' must be an array, skipping",
                                            index |-> 0, e |-> "", value |-> 0])]
    ELSE parse_picking_zones_loop(zones_data[2], 1, [st EXCEPT !.value = <<>>])

\* _validate_layout: tolerance = 2.0 metres
tolerance == 8

\* the warnings of one center: x against the floor width, y against the floor height
bounds_warnings(who, name, x, y, floor_size) ==
    (IF x < -tolerance \/ x > floor_size[1] + tolerance
     THEN <<[text |-> who, index |-> name, e |-> "center x is outside floor bounds", value |-> x]>>
     ELSE <<>>)
    \o (IF y < -tolerance \/ y > floor_size[2] + tolerance
        THEN <<[text |-> who, index |-> name, e |-> "center y is outside floor bounds", value |-> y]>>
        ELSE <<>>)

RECURSIVE validate_objects(_, _, _, _)
validate_objects(objects, k, floor_size, warnings) ==
    IF k > Len(objects) THEN warnings
    ELSE validate_objects(objects, k + 1, floor_size,
             warnings \o bounds_warnings("Object model", objects[k].model_index,
                                         objects[k].center[1], objects[k].center[2],
                                         floor_size))

RECURSIVE validate_zones(_, _, _, _)
validate_zones(zones, k, floor_size, warnings) ==
    IF k > Len(zones) THEN warnings
    ELSE validate_zones(zones, k + 1, floor_size,
             warnings \o bounds_warnings("Prohibited zone", zones[k].zone_id,
                                         zones[k].center[1], zones[k].center[2],
                                         floor_size))

\* x, y, z = obj.center: the second coordinate of an object is compared with the
\* floor height; x, y = zone.center
validate_layout(lay, warnings) ==
    validate_zones(lay.prohibited_zones, 1, lay.floor_size,
                   validate_objects(lay.objects, 1, lay.floor_size, warnings))

\* _parse_layout: the data has no robots and no metadata
parse_layout(data) ==
    LET st0 == [exc |-> "none", msg |-> "", value |-> <<>>, errors |-> <<>>, warnings |-> <<>>]
        failed(st) == [layout |-> None, errors |-> st.errors, warnings |-> st.warnings,
                       exc |-> st.exc, msg |-> st.msg]
        floor_size == IF data.floorSize = Missing
                      THEN Raise("ValueError", "Missing required field: 'floorSize'")
                      ELSE parse_floor_size(data.floorSize)
    IN IF floor_size.exc # "none" THEN failed([st0 EXCEPT !.exc = floor_size.exc,
                                                           !.msg = floor_size.msg])
       ELSE IF data.objects = Missing
       THEN failed([st0 EXCEPT !.exc = "ValueError", !.msg = "Missing required field: 'objects'"])
       ELSE LET objects == parse_objects(data.objects, st0)
            IN IF objects.exc # "none" THEN failed(objects)
               ELSE LET prohibited_zones ==
                            IF data.prohibitedZones = Missing
                            THEN [objects EXCEPT !.value = <<>>]
                            ELSE parse_prohibited_zones(data.prohibitedZones, objects)
                    IN IF prohibited_zones.exc # "none" THEN failed(prohibited_zones)
                       ELSE LET picking_zones ==
                                    IF data.pickingZones = Missing
                                    THEN [prohibited_zones EXCEPT !.value = <<>>]
                                    ELSE parse_picking_zones(data.pickingZones, prohibited_zones)
                                lay == [floor_size |-> floor_size.value,
                                        objects |-> objects.value,
                                        prohibited_zones |-> prohibited_zones.value,
                                        picking_zones |-> picking_zones.value]
                            IN IF picking_zones.exc # "none" THEN failed(picking_zones)
                               ELSE [layout |-> lay,
                                     errors |-> picking_zones.errors,
                                     warnings |-> validate_layout(lay, picking_zones.warnings),
                                     exc |-> "none", msg |-> ""]

\* WarehouseLayoutLoader.__init__: _load_json, _parse_layout
WarehouseLayoutLoader_init ==
    /\ ld_pc = "start"
    /\ loader' = parse_layout(ld_data)
    /\ ld_pc' = IF loader'.exc = "none" THEN "loaded" ELSE "raised"
    /\ UNCHANGED ld_data
    /\ UNCHANGED <<pg_vars, ws_vars, map_vars, fn_vars>>

\* ProhibitedZoneGenerator.__init__ on the loaded layout
ProhibitedZoneGenerator_init ==
    /\ ld_pc = "loaded"
    /\ tool' = "prohibited_zone_generator"
    /\ layout' = loader.layout
    /\ \E res \in Resolutions :
          /\ resolution_m_per_px' = res
          /\ grid' = new_grid(grid_dim(loader.layout.floor_size[1], res),
                              grid_dim(loader.layout.floor_size[2], res))
    /\ map_pc' = "start"
    /\ ld_pc' = "generator"
    /\ UNCHANGED <<ld_data, loader, fn_vars>>
    /\ UNCHANGED <<mark_log, image, heap, binary_map, ws_inflated_map, map_file, vw, ma,
                   ma_config, inflate_in>>
    /\ UNCHANGED <<pg_vars, ws_vars>>

\* entries of "objects": a shelf; one of width 0; one of negative depth; one with two
\* dimensions; one 3 m under the floor level; one whose footprint center is beyond
\* the floor in depth, and one beyond it in width, by 3 m or more; one beyond the
\* floor and turned by 90 degrees
RawObject(mi, c, d) ==
    [modelIndex |-> Num(mi), center |-> List(c), dimensions |-> List(d), rotation |-> Missing]

RawObjects ==
    {RawObject(1, <<4, 0, 4>>, <<2, 4, MaxDim>>),
     RawObject(2, <<4, 0, 4>>, <<0, 4, 2>>),
     RawObject(3, <<4, 0, 4>>, <<2, 4, -2>>),
     RawObject(4, <<4, 0, 4>>, <<2, 4>>),
     RawObject(6, <<4, -12, 4>>, <<2, 4, 2>>),
     RawObject(7, <<4, 0, 4 * MaxFloor + 12>>, <<2, 4, 2>>),
     RawObject(8, <<4 * MaxFloor + 12, 0, 4>>, <<2, 4, 2>>),
     [RawObject(9, <<4, 0, 4 * MaxFloor + 12>>, <<2, 4, 2>>) EXCEPT !.rotation = Num(90000)]}

\* entries of "prohibitedZones": a circle and a rectangle; a rectangle with one
\* dimension and a circle with none; a circle of radius 0 and a rectangle of negative
\* height; a circle far beyond the floor; an entry without "shape"
RawZone(sh, c, d) ==
    [shape |-> sh, center |-> List(c), dimensions |-> List(d), rotation |-> Missing]

RawZones ==
    {RawZone(Str("circle"), <<4, 4>>, <<2>>),
     RawZone(Str("rectangle"), <<6, 5>>, <<2, MaxDim>>),
     RawZone(Str("rectangle"), <<6, 5>>, <<2>>),
     RawZone(Str("circle"), <<4, 4>>, <<>>),
     RawZone(Str("circle"), <<4, 4>>, <<0>>),
     RawZone(Str("rectangle"), <<6, 5>>, <<2, -2>>),
     RawZone(Str("circle"), <<4 * MaxFloor + 12, 4>>, <<2>>),
     RawZone(Missing, <<6, 5>>, <<2, 2>>)}

\* entries of "pickingZones"
RawPickingZone(ty, d, sp) ==
    [type |-> ty, center |-> List(<<4, 0, 4>>), dimensions |-> List(d), rotation |-> Missing,
     poiSpacing |-> sp]

RawPickingZones ==
    {RawPickingZone(Str(<<"p", "i", "c", "k", "u", "p">>), <<4, 4, 2>>, Missing),
     RawPickingZone(Missing, <<4, 4, 2>>, Num(4)),
     RawPickingZone(Str(<<"D", "r", "o", "p", "o", "f", "f">>), <<4, 0, 2>>, Num(6)),
     RawPickingZone(Str(<<"S", "T", "O", "R", "A", "G", "E">>), <<4, 4, 2>>, Num(4)),
     RawPickingZone(Null, <<4, 4, 2>>, Num(4)),
     RawPickingZone(Str(PICKUP), <<0, 4, 2>>, Num(4)),
     RawPickingZone(Str(PICKUP), <<4, 4>>, Num(4)),
     RawPickingZone(Str(DROPOFF), <<4, 4, 2>>, Num(0)),
     RawPickingZone(Str(DROPOFF), <<4, 4, 2>>, Null),
     RawPickingZone(Str(DROPOFF), <<4, 4, 2>>, Str(<<"x">>))}

\* a layout file: the floor, and the entries of one of its three arrays drawn freely
InitLoad ==
    /\ PgIdle
    /\ WsIdle
    /\ MapIdle
    /\ \/ /\ ld_data \in [floorSize : {List(FloorSize)},
                          objects : {List(s) : s \in SeqsUpTo(RawObjects, MaxEntries)},
                          prohibitedZones : {Missing}, pickingZones : {Missing}]
       \/ /\ ld_data \in [floorSize : {List(FloorSize)},
                          objects : {List(<<RawObject(1, <<4, 0, 4>>, <<2, 4, MaxDim>>)>>)},
                          prohibitedZones : {List(s) : s \in SeqsUpTo(RawZones, MaxEntries)}
                                            \cup {Null},
                          pickingZones : {Missing}]
       \/ /\ ld_data \in [floorSize : {List(FloorSize)},
                          objects : {List(<<RawObject(1, <<4, 0, 4>>, <<2, 4, MaxDim>>)>>)},
                          prohibitedZones : {Missing},
                          pickingZones : {List(s) : s \in SeqsUpTo(RawPickingZones, MaxEntries)}
                                         \cup {Null}]
    /\ loader = [layout |-> None, errors |-> <<>>, warnings |-> <<>>, exc |-> "none", msg |-> ""]
    /\ ld_pc = "start"
    /\ fn_in = <<>>
    /\ fn_out = <<>>
    /\ fn_pc = "off"

NextLoad ==
    \/ WarehouseLayoutLoader_init
    \/ ProhibitedZoneGenerator_init
    \/ generate_grid

SpecLoad == InitLoad /\ [][NextLoad]_vars

\* ------------------------------------------------------------------------
\* Properties of the layout loader (SpecLoad)
\* ------------------------------------------------------------------------
\* the entries of an array of the layout file, none when the key is absent or no list
EntriesOf(v) == IF v[1] = "list" THEN v[2] ELSE <<>>

\* dimensions a shape is drawn from: width, height and depth of an object, width and
\* height of a rectangle, the radius of a circle
Needs(item) ==
    IF item.kind = "object" THEN 3
    ELSE IF item.shape.shape = "rectangle" THEN 2
    ELSE IF item.shape.shape = "circle" THEN 1
    ELSE 0

Degenerate(item) ==
    \/ Len(item.shape.dimensions) < Needs(item)
    \/ \E k \in 1..Len(item.shape.dimensions) : item.shape.dimensions[k] <= 0

NonPositive(entry) ==
    /\ entry.dimensions[1] = "list"
    /\ \E k \in 1..Len(entry.dimensions[2]) : entry.dimensions[2][k] <= 0

Recorded(messages, text, index) ==
    \E k \in 1..Len(messages) : messages[k].text = text /\ messages[k].index = index

\* C23: no shape of a loaded layout, and none handed to the rasterizer, is degenerate:
\* it has all the dimensions its shape needs, each > 0.  An entry of "objects" with a
\* non-positive dimension is recorded in errors, one of "prohibitedZones" in warnings,
\* and neither stops the load of a layout that has a valid object.
C23_NoDegenerateShape ==
    /\ \A k \in 1..Len(mark_log) : ~Degenerate(mark_log[k].item)
    /\ ld_pc \in {"loaded", "generator"}
          => \A k \in 1..Len(layout_items(loader.layout)) :
                 ~Degenerate(layout_items(loader.layout)[k])
    /\ ld_pc \in {"loaded", "raised", "generator"}
          => /\ \A i \in 1..Len(EntriesOf(ld_data.objects)) :
                    NonPositive(EntriesOf(ld_data.objects)[i])
                        => Recorded(loader.errors, "Error parsing object", i - 1)
             /\ \A i \in 1..Len(EntriesOf(ld_data.prohibitedZones)) :
                    NonPositive(EntriesOf(ld_data.prohibitedZones)[i])
                        => Recorded(loader.warnings, "Warning parsing prohibited zone", i - 1)
             /\ (\E i \in 1..Len(EntriesOf(ld_data.objects)) :
                    parse_single_object(EntriesOf(ld_data.objects)[i], i - 1).exc = "none")
                    => loader.exc = "none"

\* the 2D footprint center of an object: center[0] and center[2]
FootprintCenter(obj) == <<obj.center[1], obj.center[3]>>

\* p lies more than d outside [0, floor width] x [0, floor height]
OutsideFloor(p, floor_size, d) ==
    \/ p[1] < -d
    \/ p[1] > floor_size[1] + d
    \/ p[2] < -d
    \/ p[2] > floor_size[2] + d

\* a bounds warning that names the object by its model index
Warned(warnings, obj) ==
    \E k \in 1..Len(warnings) :
        warnings[k].text = "Object model" /\ warnings[k].index = obj.model_index

\* C24: after a load, every object whose footprint center (center[0], center[2]) lies
\* more than 2 m outside the floor has a bounds warning naming it, and no object whose
\* footprint center is inside the floor has one.
C24_BoundsWarnings ==
    ld_pc \in {"loaded", "generator"}
        => \A k \in 1..Len(loader.layout.objects) :
               LET obj == loader.layout.objects[k]
               IN /\ OutsideFloor(FootprintCenter(obj), loader.layout.floor_size, tolerance)
                         => Warned(loader.warnings, obj)
                  /\ ~OutsideFloor(FootprintCenter(obj), loader.layout.floor_size, 0)
                         => ~Warned(loader.warnings, obj)

\* a valid entry of "pickingZones": a type that is PICKUP or DROPOFF in any case, or
\* none; a center of three numbers; three dimensions with width and depth > 0; a
\* "poiSpacing" that is a number > 0, or none
ValidPickingEntry(entry) ==
    /\ \/ entry.type = Missing
       \/ entry.type[1] = "string" /\ upper(entry.type[2]) \in {PICKUP, DROPOFF}
    /\ entry.center # Missing /\ entry.center[1] = "list" /\ Len(entry.center[2]) = 3
    /\ entry.dimensions # Missing /\ entry.dimensions[1] = "list"
    /\ Len(entry.dimensions[2]) = 3
    /\ entry.dimensions[2][1] > 0 /\ entry.dimensions[2][3] > 0
    /\ entry.rotation = Missing \/ entry.rotation[1] = "number"
    /\ \/ entry.poiSpacing = Missing
       \/ entry.poiSpacing[1] = "number" /\ entry.poiSpacing[2] > 0

\* the PickingZone of a valid entry
PickingZoneOf(entry) ==
    [poi_type |-> IF entry.type = Missing THEN PICKUP ELSE upper(entry.type[2]),
     center |-> entry.center[2],
     dimensions |-> entry.dimensions[2],
     rotation |-> IF entry.rotation = Missing THEN 0 ELSE entry.rotation[2],
     poi_spacing |-> IF entry.poiSpacing = Missing THEN poi_spacing_default
                     ELSE entry.poiSpacing[2]]

RECURSIVE ValidPickingZones(_, _)
ValidPickingZones(entries, i) ==
    IF i > Len(entries) THEN <<>>
    ELSE (IF ValidPickingEntry(entries[i]) THEN <<PickingZoneOf(entries[i])>> ELSE <<>>)
         \o ValidPickingZones(entries, i + 1)

InvalidPickingEntries(entries) == {i \in 1..Len(entries) : ~ValidPickingEntry(entries[i])}

\* C25: a load of a layout with a valid object succeeds; picking_zones holds one
\* PickingZone per valid entry of "pickingZones", in input order, each PICKUP or
\* DROPOFF with poi_spacing, width and depth > 0; every invalid entry adds one
\* warning and no error.
C25_PickingZones ==
    ld_pc # "start" /\ ld_data.pickingZones # Missing /\ ld_data.pickingZones[1] = "list"
        => /\ loader.exc = "none"
           /\ loader.layout.picking_zones = ValidPickingZones(ld_data.pickingZones[2], 1)
           /\ \A k \in 1..Len(loader.layout.picking_zones) :
                  LET zone == loader.layout.picking_zones[k]
                  IN /\ zone.poi_type \in {PICKUP, DROPOFF}
                     /\ zone.poi_spacing > 0
                     /\ zone.dimensions[1] > 0 /\ zone.dimensions[3] > 0
           /\ Len(loader.warnings) = Cardinality(InvalidPickingEntries(ld_data.pickingZones[2]))
           /\ \A i \in InvalidPickingEntries(ld_data.pickingZones[2]) :
                  Recorded(loader.warnings, "Warning parsing picking zone", i - 1)
           /\ loader.errors = <<>>

\* ------------------------------------------------------------------------
\* _point_in_polygon, called once on a point and a polygon
\* ------------------------------------------------------------------------
\* the points with both coordinates in 0..MaxCoord
PolyPoints == (0..MaxCoord) \X (0..MaxCoord)

\* polygons of three and of four vertices, in any order of the vertices
Polygons == UNION {[1..n -> PolyPoints] : n \in {3, 4}}

InitPoly ==
    /\ PgIdle
    /\ WsIdle
    /\ MapIdle
    /\ ld_data = <<>>
    /\ loader = <<>>
    /\ ld_pc = "off"
    /\ fn_in \in [x : 0..MaxCoord, y : 0..MaxCoord, vertices : Polygons]
    /\ fn_out = <<>>
    /\ fn_pc = "call"

call_point_in_polygon ==
    /\ fn_pc = "call"
    /\ fn_out' = point_in_polygon(fn_in.x, fn_in.y, fn_in.vertices)
    /\ fn_pc' = "done"
    /\ UNCHANGED fn_in
    /\ UNCHANGED <<pg_vars, ws_vars, map_vars, ld_vars>>

NextPoly == call_point_in_polygon

SpecPoly == InitPoly /\ [][NextPoly]_vars

\* the edges (p1, p2) of the polygon, by the index of p1
EdgeFrom(vertices, i) == <<vertices[i], vertices[(i % Len(vertices)) + 1]>>

\* x <= the x-coordinate of the edge at ordinate y, for an edge with p1y # p2y:
\* x <= p1x + (y - p1y) * (p2x - p1x) / (p2y - p1y), multiplied out
LeftOfEdge(x, y, p1, p2) ==
    IF p2[2] > p1[2]
    THEN (x - p1[1]) * (p2[2] - p1[2]) <= (y - p1[2]) * (p2[1] - p1[1])
    ELSE (x - p1[1]) * (p2[2] - p1[2]) >= (y - p1[2]) * (p2[1] - p1[1])

Crossings(x, y, vertices) ==
    {i \in 1..Len(vertices) :
        LET p1 == EdgeFrom(vertices, i)[1]
            p2 == EdgeFrom(vertices, i)[2]
        IN /\ p1[2] # p2[2]
           /\ Min2(p1[2], p2[2]) < y
           /\ y <= Max2(p1[2], p2[2])
           /\ LeftOfEdge(x, y, p1, p2)}

\* C26: _point_in_polygon returns true exactly when the number of edges with
\* p1y # p2y, min(p1y, p2y) < y <= max(p1y, p2y) and x <= the edge's x at ordinate y
\* is odd; an edge whose endpoints have equal y contributes no crossing.
C26_RayCasting ==
    fn_pc = "done"
        => /\ fn_out = (Cardinality(Crossings(fn_in.x, fn_in.y, fn_in.vertices)) % 2 = 1)
           /\ \A i \in 1..Len(fn_in.vertices) :
                  LET e == EdgeFrom(fn_in.vertices, i)
                  IN e[1][2] = e[2][2] => ~point_in_polygon(fn_in.x, fn_in.y, <<e[1], e[2], e[2]>>)

\* a point on the level of a horizontal edge of a polygon that holds it
C26_Witness ==
    /\ fn_pc = "done"
    /\ fn_out
    /\ Cardinality(Crossings(fn_in.x, fn_in.y, fn_in.vertices)) = 1
    /\ \E i \in 1..Len(fn_in.vertices) :
           LET e == EdgeFrom(fn_in.vertices, i)
           IN e[1][2] = e[2][2] /\ e[1][1] # e[2][1] /\ e[1][2] = fn_in.y
              /\ fn_in.x <= Max2(e[1][1], e[2][1])

\* ------------------------------------------------------------------------
\* generate_clustered_pois: the number of POIs returned (SpecWS)
\* ------------------------------------------------------------------------
\* the POIs a call returned for its cluster i (0-based)
PoisOfCluster(pois, i) == {k \in 1..Len(pois) : pois[k].cluster_id = i}

\* C27: a generate_clustered_pois call with num_pois >= 0 and num_clusters >= 1
\* returns at most num_pois POIs, and at most num_pois // num_clusters of them, plus
\* one when i < num_pois mod num_clusters, for its cluster i.
C27_AtMostRequested ==
    ws_calls # <<>>
        => LET call == ws_calls[Len(ws_calls)]
           IN call.num_pois >= 0 /\ call.num_clusters >= 1
                  => /\ Len(ws_ret.pois) <= call.num_pois
                     /\ \A i \in 0..(call.num_clusters - 1) :
                            Cardinality(PoisOfCluster(ws_ret.pois, i))
                                <= (call.num_pois \div call.num_clusters)
                                   + (IF i < call.num_pois % call.num_clusters THEN 1 ELSE 0)

\* ------------------------------------------------------------------------
\* Shapes outside the grid (SpecLoad)
\* ------------------------------------------------------------------------
\* the extent of a shape on the two axes, in halves of the length unit:
\* <<x low, x high, y low, y high>>
Extent(item) ==
    LET s == item.shape
        c == IF item.kind = "object" THEN <<s.center[1], s.center[3]>> ELSE s.center
        d == IF item.kind = "object" THEN <<s.dimensions[1], s.dimensions[3]>>
             ELSE IF s.shape = "circle" THEN <<2 * s.dimensions[1], 2 * s.dimensions[1]>>
             ELSE <<s.dimensions[1], s.dimensions[2]>>
        turned == ~is_axis_aligned(s.rotation) /\ (s.rotation \div 90000) % 2 = 1
        w == IF turned THEN d[2] ELSE d[1]
        h == IF turned THEN d[1] ELSE d[2]
    IN <<2 * c[1] - w, 2 * c[1] + w, 2 * c[2] - h, 2 * c[2] + h>>

\* the variant of _mark_*_obstacle the shape is drawn by
Variant(item) ==
    IF item.kind = "zone" /\ item.shape.shape = "circle" THEN "circle"
    ELSE IF is_axis_aligned(item.shape.rotation) THEN "rectangle"
    ELSE "rotated"

Drawn(item) ==
    IF item.kind = "object" THEN item.shape.model_index # 5
    ELSE /\ item.shape.shape \in {"rectangle", "circle"}
         /\ ~Degenerate(item)

\* the cell bounding box, floor of the low end to ceil of the high end, has no cell
\* in [0, gw - 1] x [0, gh - 1]
OutsideGrid(item, gw, gh, res) ==
    LET e == Extent(item)
    IN \/ FloorDiv(e[1], 2 * res) > gw - 1
       \/ CeilDiv(e[2], 2 * res) < 0
       \/ FloorDiv(e[3], 2 * res) > gh - 1
       \/ CeilDiv(e[4], 2 * res) < 0

\* C28: a shape that lies entirely outside the grid leaves every cell unchanged,
\* whether it is drawn as an axis-aligned rectangle, a rotated rectangle or a circle.
C28_OutsideUnchanged ==
    \A k \in 1..Len(mark_log) :
        Drawn(mark_log[k].item)
        /\ OutsideGrid(mark_log[k].item, grid_width, grid_height, resolution_m_per_px)
            => mark_log[k].after = mark_log[k].before

\* ------------------------------------------------------------------------
\* The two inflations, called on one static grid
\* ------------------------------------------------------------------------
\* the cells (x, y) with x0 <= x < x1 and y0 <= y < y1, listed as
\* "for y in range(y0, y1): for x in range(x0, x1)" visits them
range_cells(x0, x1, y0, y1) ==
    LET nx == Max2(0, x1 - x0)
        ny == Max2(0, y1 - y0)
    IN [k \in 1..(nx * ny) |-> <<x0 + ((k - 1) % nx), y0 + ((k - 1) \div nx)>>]

\* MapAccessibility.get_accessible_cells on the rows of the inflated map
get_accessible_cells_ma(im, width, height) ==
    SelectSeq(range_cells(0, width, 0, height), LAMBDA c : im[c[2] + 1][c[1] + 1])

\* variant: the margin is not kept
get_accessible_cells_ws_all(im, margin) ==
    LET height == Len(im)
        width == IF im = <<>> THEN 0 ELSE Len(im[1])
    IN SelectSeq(range_cells(0, width, 0, height), LAMBDA c : im[c[2] + 1][c[1] + 1])

\* warehouse_setup.get_accessible_cells(inflated_map, margin), margin >= 0
get_accessible_cells_ws(im, margin) ==
    LET height == Len(im)
        width == IF im = <<>> THEN 0 ELSE Len(im[1])
    IN SelectSeq(range_cells(margin, width - margin, margin, height - margin),
                 LAMBDA c : im[c[2] + 1][c[1] + 1])

\* warehouse_setup.inflate_map on a grid given as a value
inflate_value_ws(bm, r) ==
    LET a == alloc_rows(<<>>, bm)
        res == inflate_map_ws(a.heap, a.rows, r)
    IN grid_value(res.heap, res.rows)

\* static grids of w x h cells with at most MaxObstacles obstacle cells
GridsOf(w, h) ==
    {[y \in 1..h |-> [x \in 1..w |-> <<x - 1, y - 1>> \notin obs]] :
        obs \in {s \in SUBSET ((0..(w - 1)) \X (0..(h - 1))) : Cardinality(s) <= MaxObstacles}}

StaticGrids == UNION {GridsOf(w, h) : w \in 1..Width, h \in 1..Height}

InitInflate ==
    /\ PgIdle
    /\ WsIdle
    /\ MapIdle
    /\ ld_data = <<>>
    /\ loader = <<>>
    /\ ld_pc = "off"
    /\ fn_in \in [static_map : StaticGrids, radius_pixels : 0..MaxRadius,
                  margin : 0..MaxMargin]
    /\ fn_out = <<>>
    /\ fn_pc = "call"

\* the same grid, radius and margin given to poi_generator and to warehouse_setup
call_inflations ==
    /\ fn_pc = "call"
    /\ LET height == Len(fn_in.static_map)
           width == Len(fn_in.static_map[1])
       IN fn_out' =
            [pg |-> get_accessible_cells_ma(
                        inflate_value(fn_in.static_map, width, height,
                                      fn_in.radius_pixels, fn_in.margin),
                        width, height),
             ws |-> get_accessible_cells_ws(
                        inflate_value_ws(fn_in.static_map, fn_in.radius_pixels),
                        fn_in.margin)]
    /\ fn_pc' = "done"
    /\ UNCHANGED fn_in
    /\ UNCHANGED <<pg_vars, ws_vars, map_vars, ld_vars>>

NextInflate == call_inflations

SpecInflate == InitInflate /\ [][NextInflate]_vars

\* C29: on every static grid, for every radius in cells and every margin,
\* MapAccessibility._inflate_map followed by get_accessible_cells returns the list
\* that inflate_map followed by get_accessible_cells(inflated, margin) returns.
C29_InflationsAgree == fn_pc = "done" => fn_out.pg = fn_out.ws

\* an obstacle off the margin closes cells, the margin closes others, some cell stays
C29_Witness ==
    /\ fn_pc = "done"
    /\ fn_in.radius_pixels >= 1
    /\ fn_in.margin >= 1
    /\ \E y \in 1..Len(fn_in.static_map) : \E x \in 1..Len(fn_in.static_map[y]) :
           ~fn_in.static_map[y][x]
    /\ fn_out.pg # <<>>
    /\ fn_out.ws = fn_out.pg

\* ------------------------------------------------------------------------
\* used_positions and the nodes of the clusters (SpecPG)
\* ------------------------------------------------------------------------
\* C30: with cluster_spacing >= 1, after each generate_*_clusters call
\* used_positions is the set of the nodes of all clusters of self.clusters, and no
\* position is a node twice: the clusters have as many nodes as used_positions has
\* elements.
C30_UsedPositionsAreNodes ==
    cluster_spacing >= 1
        => /\ used_positions = {NodeAt(s) : s \in NodeSlots}
           /\ Cardinality(NodeSlots) = Cardinality(used_positions)
           /\ \A s, t \in NodeSlots : NodeAt(s) = NodeAt(t) => s = t

\* all three calls have returned, two clusters of two categories, one with two nodes
C30_Witness ==
    /\ cluster_spacing >= 1
    /\ pc = "done"
    /\ \E i, j \in 1..Len(clusters) : clusters[i].poi_type # clusters[j].poi_type
    /\ \E i \in 1..Len(clusters) : Len(clusters[i].nodes) >= 2
    /\ Cardinality(used_positions) >= 3

====
